---- MODULE Spec2Model ----
(***************************************************************************)
(* Quantum-chemistry-to-knowledge-graph encoder.                           *)
(*                                                                         *)
(* Three scripts of the repository are modelled, each a normalizer and an  *)
(* encoder:                                                                *)
(*   "cclib"   src/py/parse_gaussian_cclib.py                              *)
(*             extract_cclib_data, generate_rdf_from_cclib                 *)
(*   "triples" src/eliza/agent/py/parse_gaussian_cclib.py                  *)
(*             generate_rdf_triples                                        *)
(*   "rdflib"  src/py/parse_gaussian.py                                    *)
(*             gaussian_to_dict, dict_to_graph                             *)
(*                                                                         *)
(* Numbers are fixed-point integers counted in ticks of 10^-TickDigits;    *)
(* formatted numbers are the decimal strings the f-strings produce.        *)
(* Strings the code edits character by character (timestamps, filenames)   *)
(* are sequences of one-character strings.                                 *)
(***************************************************************************)
EXTENDS Integers, Sequences, FiniteSets, TLC

(***************************************************************************)
(* Bounds of the model.                                                    *)
(***************************************************************************)
TickDigits == 7
MaxAtoms == 2
MaxFrames == 2
MaxOrbitals == 3
MaxRuns == 2
MaxClock == 1

Range(s) == {s[i] : i \in DOMAIN s}

Abs(v) == IF v < 0 THEN -v ELSE v

RECURSIVE Pow10(_)
Pow10(n) == IF n <= 0 THEN 1 ELSE 10 * Pow10(n - 1)

(* seq[k] of Python: a negative k counts from the end; outside            *)
(* -len .. len-1 the access raises IndexError.                             *)
PyIndexOk(seq, k) == k >= -Len(seq) /\ k < Len(seq)

PyIndex(seq, k) == IF k >= 0 THEN seq[k + 1] ELSE seq[Len(seq) + k + 1]

(* A zip that loses its last pair. *)
ZipLenExclusive(a, b) ==
    IF Len(a) = 0 \/ Len(b) = 0 THEN 0
    ELSE IF Len(a) < Len(b) THEN Len(a) - 1 ELSE Len(b) - 1

(* zip(a, b): stops at the shorter of the two. *)
ZipLen(a, b) == IF Len(a) < Len(b) THEN Len(a) ELSE Len(b)

(***************************************************************************)
(* Number formatting: f"{v:.<d>f}".                                        *)
(***************************************************************************)
RoundHalfEven(n, d) ==
    LET q == n \div d
        r == n % d
    IN  IF 2 * r < d THEN q
        ELSE IF 2 * r > d THEN q + 1
        ELSE IF q % 2 = 0 THEN q ELSE q + 1

RECURSIVE Zeros(_)
Zeros(n) == IF n <= 0 THEN "" ELSE "0" \o Zeros(n - 1)

RECURSIVE NumDigits(_)
NumDigits(n) == IF n < 10 THEN 1 ELSE 1 + NumDigits(n \div 10)

ZeroPad(n, w) == Zeros(w - NumDigits(n)) \o ToString(n)

Fmt(v, d) ==
    LET sign == IF v < 0 THEN "-" ELSE ""
        m == Abs(v)
    IN  IF d >= TickDigits
        THEN sign \o ToString(m \div Pow10(TickDigits)) \o "."
                  \o ZeroPad(m % Pow10(TickDigits), TickDigits)
                  \o Zeros(d - TickDigits)
        ELSE LET s == RoundHalfEven(m, Pow10(TickDigits - d))
             IN  sign \o ToString(s \div Pow10(d)) \o "." \o ZeroPad(s % Pow10(d), d)

(* str(float) / Literal(float): the value at its full precision. *)
Repr(v) == Fmt(v, TickDigits)

(***************************************************************************)
(* eV to Hartree.  The factors are kept in millionths: 27.211 and          *)
(* 27.211386024367243 (cut after the sixth decimal).                       *)
(***************************************************************************)
HartreeFactorShort == 27211000
HartreeFactorLong == 27211386

(* The quotient and remainder of r * 10^n by d, for r < d, digit by digit. *)
RECURSIVE ScaledDiv(_, _, _)
ScaledDiv(r, d, n) ==
    IF n = 0 THEN [q |-> 0, r |-> r]
    ELSE LET prev == ScaledDiv(r, d, n - 1)
         IN  [q |-> prev.q * 10 + (prev.r * 10) \div d, r |-> (prev.r * 10) % d]

(* ev / factor, rounded to the nearest tick. *)
DivFactor(ev, factor) ==
    LET m == Abs(ev)
        w == ScaledDiv(m % factor, factor, 6)
        q0 == (m \div factor) * 1000000 + w.q
        q == IF 2 * w.r < factor THEN q0
             ELSE IF 2 * w.r > factor THEN q0 + 1
             ELSE IF q0 % 2 = 0 THEN q0 ELSE q0 + 1
    IN  IF ev < 0 THEN -q ELSE q

(***************************************************************************)
(* Character strings.                                                      *)
(***************************************************************************)
RECURSIVE Join(_)
Join(chars) == IF chars = <<>> THEN "" ELSE Head(chars) \o Join(Tail(chars))

RECURSIVE Without(_, _)
Without(chars, c) ==
    IF chars = <<>> THEN <<>>
    ELSE IF Head(chars) = c THEN Without(Tail(chars), c)
    ELSE <<Head(chars)>> \o Without(Tail(chars), c)

(* The characters of chars after position n (chars[n:]). *)
Drop(chars, n) == SubSeq(chars, n + 1, Len(chars))

Take(chars, n) == SubSeq(chars, 1, n)

UpperLetters ==
    <<"A", "B", "C", "D", "E", "F", "G", "H", "I", "J", "K", "L", "M",
      "N", "O", "P", "Q", "R", "S", "T", "U", "V", "W", "X", "Y", "Z">>

LowerLetters ==
    <<"a", "b", "c", "d", "e", "f", "g", "h", "i", "j", "k", "l", "m",
      "n", "o", "p", "q", "r", "s", "t", "u", "v", "w", "x", "y", "z">>

Digits == <<"0", "1", "2", "3", "4", "5", "6", "7", "8", "9">>

LowerChar(c) ==
    IF \E i \in DOMAIN UpperLetters : UpperLetters[i] = c
    THEN LowerLetters[CHOOSE i \in DOMAIN UpperLetters : UpperLetters[i] = c]
    ELSE c

LowerStr(chars) == [i \in DOMAIN chars |-> LowerChar(chars[i])]

(* The character class [a-zA-Z0-9_-]. *)
IdChars == Range(UpperLetters) \cup Range(LowerLetters) \cup Range(Digits) \cup {"_", "-"}

(***************************************************************************)
(* The calculation identifier of generate_rdf_from_cclib, from the name    *)
(* of the source file.                                                     *)
(***************************************************************************)
(* os.path.basename: what follows the last "/". *)
Basename(path) ==
    LET seps == {i \in DOMAIN path : path[i] = "/"}
    IN  IF seps = {} THEN path
        ELSE Drop(path, CHOOSE i \in seps : \A j \in seps : j <= i)

(* os.path.splitext(name)[0]: cut at the last "." unless only dots precede it. *)
SplitextRoot(name) ==
    LET dots == {i \in DOMAIN name : name[i] = "."}
    IN  IF dots = {} THEN name
        ELSE LET d == CHOOSE i \in dots : \A j \in dots : j <= i
             IN  IF \E j \in 1..(d - 1) : name[j] # "." THEN Take(name, d - 1) ELSE name

(* The alternatives of the prefix pattern, in the order the pattern lists them. *)
KnownPrefixes ==
    << <<"c", "a", "l", "c", "_">>,
       <<"c", "a", "l", "c", "u", "l", "a", "t", "i", "o", "n", "_">>,
       <<"c", "o", "m", "p", "_">>,
       <<"g", "a", "u", "s", "s", "i", "a", "n", "_">>,
       <<"o", "p", "t", "_">>,
       <<"f", "r", "e", "q", "_">> >>

HasPrefix(name, pre) ==
    Len(name) >= Len(pre) /\ LowerStr(Take(name, Len(pre))) = pre

(* re.sub(r'^(calc_|...|freq_)', '', name, flags=re.IGNORECASE): the first *)
(* alternative that matches at the start is removed, once.                 *)
StripKnownPrefix(name) ==
    LET hits == {i \in DOMAIN KnownPrefixes : HasPrefix(name, KnownPrefixes[i])}
    IN  IF hits = {} THEN name
        ELSE Drop(name, Len(KnownPrefixes[CHOOSE i \in hits : \A j \in hits : i <= j]))

(* re.sub(r'[^a-zA-Z0-9_-]', '_', name) *)
Sanitize(name) == [i \in DOMAIN name |-> IF name[i] \in IdChars THEN name[i] ELSE "_"]

BaseName(filename) == Join(Sanitize(StripKnownPrefix(SplitextRoot(filename))))

(***************************************************************************)
(* The calculation identifier of generate_rdf_triples, from the metadata   *)
(* timestamp.                                                              *)
(***************************************************************************)
CalcId(timestamp) == "calc_" \o Join(Without(Without(timestamp, "-"), ":"))

MoleculeId(calc_id) == "mol_" \o calc_id

(***************************************************************************)
(* Element symbols (PeriodicTable().element) and the molecular formula.    *)
(***************************************************************************)
AtomicNumbers == {1, 6, 8, 17}

Element(num) ==
    CASE num = 1 -> "H"
      [] num = 6 -> "C"
      [] num = 8 -> "O"
      [] num = 17 -> "Cl"

(* The code points Python compares strings by. *)
CodePoints(sym) ==
    CASE sym = "H" -> <<72>>
      [] sym = "C" -> <<67>>
      [] sym = "O" -> <<79>>
      [] sym = "Cl" -> <<67, 108>>

RECURSIVE SeqLess(_, _)
SeqLess(a, b) ==
    IF a = <<>> THEN b # <<>>
    ELSE IF b = <<>> THEN FALSE
    ELSE IF Head(a) # Head(b) THEN Head(a) < Head(b)
    ELSE SeqLess(Tail(a), Tail(b))

StrLess(a, b) == SeqLess(CodePoints(a), CodePoints(b))

(* sorted(S) for a set of symbols. *)
RECURSIVE SortedSymbols(_)
SortedSymbols(S) ==
    IF S = {} THEN <<>>
    ELSE LET m == CHOOSE x \in S : \A y \in S \ {x} : StrLess(x, y)
         IN  <<m>> \o SortedSymbols(S \ {m})

(* Counter(symbols) *)
SymbolCounter(symbols) ==
    [e \in Range(symbols) |-> Cardinality({i \in DOMAIN symbols : symbols[i] = e})]

AtomSymbols(atomnos) == [i \in DOMAIN atomnos |-> Element(atomnos[i])]

(* The count written after every symbol, a count of one included. *)
MolecularFormulaWithOnes(atomnos) ==
    LET formula_dict == SymbolCounter(AtomSymbols(atomnos))
        elems == SortedSymbols(DOMAIN formula_dict)
    IN  Join([i \in DOMAIN elems |-> elems[i] \o ToString(formula_dict[elems[i]])])

MolecularFormula(atomnos) ==
    LET formula_dict == SymbolCounter(AtomSymbols(atomnos))
        elems == SortedSymbols(DOMAIN formula_dict)
    IN  Join([i \in DOMAIN elems |->
                elems[i] \o (IF formula_dict[elems[i]] > 1
                             THEN ToString(formula_dict[elems[i]]) ELSE "")])

(***************************************************************************)
(* The raw result object of the parser.  Each attribute is missing         *)
(* (hasattr is false), None, or has a value.                               *)
(***************************************************************************)
Missing == [st |-> "absent"]
None == [st |-> "none"]
Some(x) == [st |-> "val", v |-> x]

HasAttr(obj, name) == obj[name].st # "absent"
NotNone(obj, name) == obj[name].st = "val"

RECURSIVE Concat(_)
Concat(seqs) == IF seqs = <<>> THEN <<>> ELSE Head(seqs) \o Concat(Tail(seqs))

RECURSIVE SumSeq(_)
SumSeq(s) == IF s = <<>> THEN 0 ELSE Head(s) + SumSeq(Tail(s))

(* Floor of the square root. *)
RECURSIVE SqrtFrom(_, _)
(* Newton's iteration from above, down to the integer square root. *)
SqrtFrom(n, r) == IF r * r <= n THEN r ELSE SqrtFrom(n, (r + n \div r) \div 2)

ISqrt(n) == IF n = 0 THEN 0 ELSE SqrtFrom(n, IF n > 46340 THEN 46340 ELSE n)

(* float division by a small integer, to the tick. *)
DivInt(v, d) == IF v < 0 THEN -RoundHalfEven(-v, d) ELSE RoundHalfEven(v, d)

(***************************************************************************)
(* Output lines.  A statement is a "head" line that names its subject and  *)
(* "cont" lines indented under it; e is the terminator of the line.        *)
(***************************************************************************)
Head_(s, p, o, e) == [k |-> "head", s |-> s, p |-> p, o |-> o, e |-> e]
Cont(s, p, o, e) == [k |-> "cont", s |-> s, p |-> p, o |-> o, e |-> e]
Blank == [k |-> "blank", s |-> "", p |-> "", o |-> "", e |-> ""]
Comment(label, text) == [k |-> "comment", s |-> "", p |-> label, o |-> text, e |-> ""]
PrefixLine(name, uri) == [k |-> "prefix", s |-> name, p |-> "", o |-> uri, e |-> "."]

Ok(lines) == [status |-> "ok", what |-> "", lines |-> lines]
Raised(what) == [status |-> "raised", what |-> what, lines |-> <<>>]

IsStatement(l) == l.k \in {"head", "cont"}

(***************************************************************************)
(* generate_rdf_triples (src/eliza/agent/py/parse_gaussian_cclib.py)       *)
(***************************************************************************)
TriplesPrefixes ==
    << PrefixLine("cheminf", "http://semanticscience.org/resource/"),
       PrefixLine("dcterms", "http://purl.org/dc/terms/"),
       PrefixLine("ex", "https://example.org/gaussian#"),
       PrefixLine("ontocompchem", "http://www.theworldavatar.com/ontology/ontocompchem/"),
       PrefixLine("prov", "http://www.w3.org/ns/prov#"),
       PrefixLine("rdfs", "http://www.w3.org/2000/01/rdf-schema#"),
       PrefixLine("xsd", "http://www.w3.org/2001/XMLSchema#"),
       PrefixLine("qudt", "http://qudt.org/schema/qudt/"),
       PrefixLine("unit", "http://qudt.org/vocab/unit/"),
       Blank >>

TriplesAtomId(molecule_id, i) == "atom_" \o molecule_id \o "_" \o ToString(i)
TriplesFreqId(calc_id, i) == "freq_" \o calc_id \o "_" \o ToString(i)
TriplesTransId(calc_id, i) == "trans_" \o calc_id \o "_" \o ToString(i)
(* An orbital identifier without the spin channel. *)
TriplesMoIdNoSpin(calc_id, spin, i) == "mo_" \o calc_id \o "_" \o ToString(i)

TriplesMoId(calc_id, spin, i) ==
    "mo_" \o calc_id \o "_spin" \o ToString(spin) \o "_" \o ToString(i)

(* rdf_lines[-1] = rdf_lines[-1].rstrip(' ;') + " ." *)
CloseLast(lines) == [lines EXCEPT ![Len(lines)].e = "."]

TriplesCalculation(calc_id, molecule_id, metadata) ==
    << Head_(calc_id, "a", "ontocompchem:QuantumCalculation", ";"),
       Cont(calc_id, "dcterms:created", Join(metadata.timestamp.v), ";"),
       Cont(calc_id, "dcterms:source", Join(metadata.filename.v), ";"),
       Cont(calc_id, "ontocompchem:hasMolecule", "ex:" \o molecule_id, "."),
       Blank >>

TriplesMolecule(data, molecule_id) ==
    CloseLast(
        << Head_(molecule_id, "a", "cheminf:Molecule", ";") >>
        \o (IF NotNone(data, "natom")
            THEN << Cont(molecule_id, "cheminf:hasAtomCount", ToString(data.natom.v), ";") >>
            ELSE <<>>)
        \o (IF NotNone(data, "charge")
            THEN << Cont(molecule_id, "cheminf:hasCharge", ToString(data.charge.v), ";") >>
            ELSE <<>>)
        \o (IF NotNone(data, "mult")
            THEN << Cont(molecule_id, "cheminf:hasMultiplicity", ToString(data.mult.v), ";") >>
            ELSE <<>>)
        \o (IF NotNone(data, "atommasses")
            THEN << Cont(molecule_id, "cheminf:hasMolecularWeight",
                         Fmt(SumSeq(data.atommasses.v), 6), ";") >>
            ELSE <<>>))
    \o << Blank >>

(* The first frame instead of the last. *)
TriplesFirstGeometry(data) == PyIndex(data.atomcoords.v, 0)

(* coords = data.atomcoords[-1] *)
TriplesFinalGeometry(data) == PyIndex(data.atomcoords.v, -1)

TriplesAtomsRaise(data) ==
    /\ NotNone(data, "atomcoords") /\ Len(data.atomcoords.v) > 0
    /\ NotNone(data, "atomnos")
    /\ Len(data.atomnos.v) < Len(TriplesFinalGeometry(data))

TriplesAtoms(data, molecule_id) ==
    IF NotNone(data, "atomcoords") /\ Len(data.atomcoords.v) > 0
    THEN LET coords == TriplesFinalGeometry(data)
             atomnos == IF HasAttr(data, "atomnos") THEN data.atomnos ELSE None
         IN  Concat([i \in 1..Len(coords) |->
                 LET atom_id == TriplesAtomId(molecule_id, i)
                 IN  << Head_(atom_id, "a", "cheminf:Atom", ";"),
                        Cont(atom_id, "cheminf:isPartOf", "ex:" \o molecule_id, ";") >>
                     \o (IF atomnos.st = "val"
                         THEN << Cont(atom_id, "cheminf:hasAtomicNumber",
                                      ToString(atomnos.v[i]), ";") >>
                         ELSE <<>>)
                     \o << Cont(atom_id, "cheminf:hasXCoordinate", Fmt(coords[i][1], 6), ";"),
                           Cont(atom_id, "cheminf:hasYCoordinate", Fmt(coords[i][2], 6), ";"),
                           Cont(atom_id, "cheminf:hasZCoordinate", Fmt(coords[i][3], 6), "."),
                           Blank >>])
    ELSE <<>>

TriplesScf(data, calc_id) ==
    IF NotNone(data, "scfenergies")
    THEN [i \in 1..Len(data.scfenergies.v) |->
            Head_(calc_id, "ontocompchem:hasSCFEnergy",
                  Fmt(DivFactor(data.scfenergies.v[i], HartreeFactorLong), 10), ".")]
    ELSE <<>>

TriplesHomoLumoEntered(data) ==
    NotNone(data, "homos") /\ HasAttr(data, "moenergies")

(* len(data.moenergies) on None *)
TriplesHomoLumoRaise(data) ==
    /\ TriplesHomoLumoEntered(data)
    /\ ~NotNone(data, "moenergies")
    /\ \E s \in DOMAIN data.homos.v : data.homos.v[s] >= 0

TriplesHomoLumo(data, calc_id) ==
    IF TriplesHomoLumoEntered(data)
    THEN Concat([s \in 1..Len(data.homos.v) |->
            LET homo_idx == data.homos.v[s]
                mo == data.moenergies.v
            IN  IF homo_idx >= 0 /\ Len(mo) > s - 1 /\ Len(mo[s]) > homo_idx
                THEN LET homo_energy == PyIndex(mo[s], homo_idx)
                     IN  << Head_(calc_id, "ontocompchem:hasHOMOEnergy", Fmt(homo_energy, 6), ".") >>
                         \o (IF Len(mo[s]) > homo_idx + 1
                             THEN LET lumo_energy == PyIndex(mo[s], homo_idx + 1)
                                  IN  << Head_(calc_id, "ontocompchem:hasLUMOEnergy",
                                               Fmt(lumo_energy, 6), "."),
                                         Head_(calc_id, "ontocompchem:hasHOMOLUMOGap",
                                               Fmt(lumo_energy - homo_energy, 6), ".") >>
                             ELSE <<>>)
                ELSE <<>>])
    ELSE <<>>

TriplesVibrations(data, calc_id) ==
    IF NotNone(data, "vibfreqs")
    THEN Concat([i \in 1..Len(data.vibfreqs.v) |->
            LET freq_id == TriplesFreqId(calc_id, i)
            IN  << Head_(freq_id, "a", "ontocompchem:VibrationalFrequency", ";"),
                   Cont(freq_id, "ontocompchem:belongsTo", "ex:" \o calc_id, ";"),
                   Cont(freq_id, "ontocompchem:hasFrequency", Fmt(data.vibfreqs.v[i], 2), ";"),
                   Cont(freq_id, "qudt:hasUnit", "unit:PER-CM", ".") >>
                \o (IF NotNone(data, "vibirs") /\ i - 1 < Len(data.vibirs.v)
                    THEN << Head_(freq_id, "ontocompchem:hasIRIntensity",
                                  Fmt(data.vibirs.v[i], 4), ".") >>
                    ELSE <<>>)
                \o (IF NotNone(data, "vibramans") /\ i - 1 < Len(data.vibramans.v)
                    THEN << Head_(freq_id, "ontocompchem:hasRamanActivity",
                                  Fmt(data.vibramans.v[i], 4), ".") >>
                    ELSE <<>>)
                \o << Blank >>])
    ELSE <<>>

TriplesScalar(data, calc_id, attr, pred) ==
    IF NotNone(data, attr)
    THEN << Head_(calc_id, pred, Fmt(data[attr].v, 10), ".") >>
    ELSE <<>>

TriplesThermo(data, calc_id) ==
    TriplesScalar(data, calc_id, "enthalpy", "ontocompchem:hasEnthalpy")
    \o TriplesScalar(data, calc_id, "freeenergy", "ontocompchem:hasFreeEnergy")
    \o TriplesScalar(data, calc_id, "entropy", "ontocompchem:hasEntropy")
    \o TriplesScalar(data, calc_id, "zpve", "ontocompchem:hasZPVE")

TriplesTransitions(data, calc_id) ==
    IF NotNone(data, "etenergies")
    THEN Concat([i \in 1..Len(data.etenergies.v) |->
            LET trans_id == TriplesTransId(calc_id, i)
            IN  << Head_(trans_id, "a", "ontocompchem:ElectronicTransition", ";"),
                   Cont(trans_id, "ontocompchem:belongsTo", "ex:" \o calc_id, ";"),
                   Cont(trans_id, "ontocompchem:hasTransitionEnergy",
                        Fmt(data.etenergies.v[i], 2), ";"),
                   Cont(trans_id, "qudt:hasUnit", "unit:PER-CM", ".") >>
                \o (IF NotNone(data, "etoscs") /\ i - 1 < Len(data.etoscs.v)
                    THEN << Head_(trans_id, "ontocompchem:hasOscillatorStrength",
                                  Fmt(data.etoscs.v[i], 6), ".") >>
                    ELSE <<>>)
                \o << Blank >>])
    ELSE <<>>

(* data.atomcharges: the (charge_type, charges) items in the order of the dict. *)
TriplesAtomCharges(data, molecule_id) ==
    IF NotNone(data, "atomcharges")
    THEN Concat([c \in 1..Len(data.atomcharges.v) |->
            LET item == data.atomcharges.v[c]
            IN  [i \in 1..Len(item.charges) |->
                    Head_(TriplesAtomId(molecule_id, i),
                          "ontocompchem:has" \o item.charge_type \o "Charge",
                          Fmt(item.charges[i], 6), ".")]])
    ELSE <<>>

TriplesOrbitals(data, calc_id) ==
    IF NotNone(data, "moenergies")
    THEN Concat([s \in 1..Len(data.moenergies.v) |->
            Concat([i \in 1..Len(data.moenergies.v[s]) |->
                LET mo_id == TriplesMoId(calc_id, s - 1, i)
                IN  << Head_(mo_id, "a", "ontocompchem:MolecularOrbital", ";"),
                       Cont(mo_id, "ontocompchem:belongsTo", "ex:" \o calc_id, ";"),
                       Cont(mo_id, "ontocompchem:hasSpin", ToString(s - 1), ";"),
                       Cont(mo_id, "ontocompchem:hasOrbitalIndex", ToString(i), ";"),
                       Cont(mo_id, "ontocompchem:hasOrbitalEnergy",
                            Fmt(data.moenergies.v[s][i], 6), ".") >>])])
    ELSE <<>>

(* np.sqrt(sum(moment_set[1:4]**2)) *)
TriplesDipoleMagnitude(moment_set) ==
    ISqrt(SumSeq([j \in 1..3 |-> moment_set[j + 1] * moment_set[j + 1]]))

TriplesMoments(data, calc_id) ==
    IF NotNone(data, "moments")
    THEN Concat([i \in 1..Len(data.moments.v) |->
            IF Len(data.moments.v[i]) >= 4
            THEN << Head_(calc_id, "ontocompchem:hasDipoleMoment",
                          Fmt(TriplesDipoleMagnitude(data.moments.v[i]), 6), ".") >>
            ELSE <<>>])
    ELSE <<>>

TriplesBasis(data, calc_id) ==
    (IF NotNone(data, "nbasis")
     THEN << Head_(calc_id, "ontocompchem:hasBasisFunctions", ToString(data.nbasis.v), ".") >>
     ELSE <<>>)
    \o (IF NotNone(data, "optdone")
        THEN << Head_(calc_id, "ontocompchem:isOptimizationConverged",
                      IF data.optdone.v THEN "true" ELSE "false", ".") >>
        ELSE <<>>)

IsSquareShape(t) == t # <<>> /\ \A r \in DOMAIN t : Len(t[r]) = Len(t)

(* pol_tensor.shape == (3, 3) *)
IsShape3x3(t) == Len(t) = 3 /\ \A r \in DOMAIN t : Len(t[r]) = 3

Trace(t) == SumSeq([r \in DOMAIN t |-> t[r][r]])

TriplesPolarizabilities(data, calc_id) ==
    IF NotNone(data, "polarizabilities")
    THEN Concat([i \in 1..Len(data.polarizabilities.v) |->
            LET pol_tensor == data.polarizabilities.v[i]
            IN  IF IsShape3x3(pol_tensor)
                THEN << Head_(calc_id, "ontocompchem:hasAveragePolarizability",
                              Fmt(DivInt(Trace(pol_tensor), 3), 6), ".") >>
                ELSE <<>>])
    ELSE <<>>

(* The trailing comment lines; now is datetime.now() at the time of the call. *)
TriplesTrailer(metadata, now) ==
    << Blank,
       Comment("Parsed using cclib version", "cclib.__version__"),
       Comment("Generated on", ToString(now)),
       Comment("Source file", Join(metadata.filename.v)) >>

TriplesMetadataRaise(metadata) ==
    metadata.timestamp.st # "val" \/ metadata.filename.st # "val"

generate_rdf_triples(data, metadata, now) ==
    IF TriplesMetadataRaise(metadata) THEN Raised("KeyError")
    ELSE IF TriplesAtomsRaise(data) THEN Raised("IndexError")
    ELSE IF TriplesHomoLumoRaise(data) THEN Raised("TypeError")
    ELSE LET calc_id == CalcId(metadata.timestamp.v)
             molecule_id == MoleculeId(calc_id)
         IN  Ok(TriplesPrefixes
                \o TriplesCalculation(calc_id, molecule_id, metadata)
                \o TriplesMolecule(data, molecule_id)
                \o TriplesAtoms(data, molecule_id)
                \o TriplesScf(data, calc_id)
                \o TriplesHomoLumo(data, calc_id)
                \o TriplesVibrations(data, calc_id)
                \o TriplesThermo(data, calc_id)
                \o TriplesTransitions(data, calc_id)
                \o TriplesAtomCharges(data, molecule_id)
                \o TriplesOrbitals(data, calc_id)
                \o TriplesMoments(data, calc_id)
                \o TriplesBasis(data, calc_id)
                \o TriplesPolarizabilities(data, calc_id)
                \o TriplesTrailer(metadata, now))

(***************************************************************************)
(* extract_cclib_data (src/py/parse_gaussian_cclib.py)                     *)
(***************************************************************************)
CclibAttrs ==
    {"atomnos", "atomcoords", "charge", "mult", "natom", "scfenergies", "vibfreqs",
     "enthalpy", "entropy", "freeenergy", "zpve", "temperature", "pressure",
     "rotconsts", "time", "transprop", "coreelectrons", "hessian"}

(* Numeric arrays and lists become lists with the same items; scalars stay. *)
safe_array_to_list(arr) == arr

ExtractMetadata(filepath, now) ==
    [filepath |-> filepath,
     filename |-> Basename(filepath),
     parser |-> "cclib",
     cclib_version |-> "cclib.__version__",
     parsed_at |-> ToString(now)]

ExtractAttrs(parsed_data) ==
    [attr \in {a \in CclibAttrs : NotNone(parsed_data, a)} |->
        safe_array_to_list(parsed_data[attr].v)]

(* The gap taken as HOMO minus LUMO. *)
GapEntryHomoMinusLumo(i, energies, homo_idx) ==
    LET gap_ev == PyIndex(energies, homo_idx) - PyIndex(energies, homo_idx + 1)
    IN  [spin |-> i,
         homo_energy_ev |-> PyIndex(energies, homo_idx),
         lumo_energy_ev |-> PyIndex(energies, homo_idx + 1),
         gap_ev |-> gap_ev,
         gap_hartree |-> DivFactor(gap_ev, HartreeFactorShort)]

(* One entry of homo_lumo_gaps, for the spin channel at 0-based position i. *)
GapEntry(i, energies, homo_idx) ==
    LET gap_ev == PyIndex(energies, homo_idx + 1) - PyIndex(energies, homo_idx)
    IN  [spin |-> i,
         homo_energy_ev |-> PyIndex(energies, homo_idx),
         lumo_energy_ev |-> PyIndex(energies, homo_idx + 1),
         gap_ev |-> gap_ev,
         gap_hartree |-> DivFactor(gap_ev, HartreeFactorShort)]

HasLumo(energies, homo_idx) == Len(energies) > homo_idx + 1

ExtractGapsEntered(parsed_data) ==
    HasAttr(parsed_data, "moenergies") /\ HasAttr(parsed_data, "homos")

(* zip(None, ...) and an index outside the orbital energies raise. *)
ExtractGapsRaise(parsed_data) ==
    /\ ExtractGapsEntered(parsed_data)
    /\ \/ ~NotNone(parsed_data, "moenergies")
       \/ ~NotNone(parsed_data, "homos")
       \/ \E i \in 1..ZipLen(parsed_data.moenergies.v, parsed_data.homos.v) :
            LET energies == parsed_data.moenergies.v[i]
                homo_idx == parsed_data.homos.v[i]
            IN  /\ HasLumo(energies, homo_idx)
                /\ ~(PyIndexOk(energies, homo_idx + 1) /\ PyIndexOk(energies, homo_idx))

RECURSIVE GapsFrom(_, _, _)
GapsFrom(moenergies, homos, i) ==
    IF i > ZipLen(moenergies, homos) THEN <<>>
    ELSE (IF HasLumo(moenergies[i], homos[i])
          THEN << GapEntry(i - 1, moenergies[i], homos[i]) >>
          ELSE <<>>)
         \o GapsFrom(moenergies, homos, i + 1)

ExtractGaps(parsed_data) ==
    IF ExtractGapsEntered(parsed_data)
    THEN LET homo_lumo_gaps == GapsFrom(parsed_data.moenergies.v, parsed_data.homos.v, 1)
         IN  IF homo_lumo_gaps # <<>> THEN [k \in {"homo_lumo_gaps"} |-> homo_lumo_gaps]
             ELSE <<>>
    ELSE <<>>

(* parsed_data.atomcoords[-1] of an empty sequence raises. *)
ExtractGeometryRaise(parsed_data) ==
    NotNone(parsed_data, "atomcoords") /\ Len(parsed_data.atomcoords.v) = 0

ExtractFinalGeometry(parsed_data) ==
    IF NotNone(parsed_data, "atomcoords")
    THEN [k \in {"final_geometry"} |->
            safe_array_to_list(PyIndex(parsed_data.atomcoords.v, -1))]
    ELSE <<>>

ExtractSymbols(parsed_data) ==
    IF NotNone(parsed_data, "atomnos")
    THEN [k \in {"atomsymbols"} |-> AtomSymbols(parsed_data.atomnos.v)]
    ELSE <<>>

ExtractFormula(parsed_data) ==
    IF NotNone(parsed_data, "atomnos")
    THEN [k \in {"molecular_formula"} |-> MolecularFormula(parsed_data.atomnos.v)]
    ELSE <<>>

ExtractCalculationMetadata(parsed_data) ==
    IF NotNone(parsed_data, "metadata")
    THEN [k \in {"calculation_metadata"} |-> parsed_data.metadata.v]
    ELSE <<>>

(* An error stored beside a field of the record. *)
ErrorResultPartial(msg) ==
    [k \in {"error", "parser"} |-> IF k = "error" THEN msg ELSE "cclib"]

ErrorResult(msg) == [k \in {"error"} |-> msg]

(* parsed is what ccread gave: a result object, None, or a failure. *)
extract_cclib_data(parsed, filepath, now) ==
    IF parsed.st = "raises" THEN ErrorResult("Error parsing " \o Join(filepath))
    ELSE IF parsed.st = "none" THEN ErrorResult("Failed to parse file: " \o Join(filepath))
    ELSE LET parsed_data == parsed.v
         IN  IF \/ ExtractGapsRaise(parsed_data)
                \/ ExtractGeometryRaise(parsed_data)
             THEN ErrorResult("Error parsing " \o Join(filepath))
             ELSE [k \in {"metadata"} |-> ExtractMetadata(filepath, now)]
                  @@ ExtractAttrs(parsed_data)
                  @@ ExtractSymbols(parsed_data)
                  @@ ExtractGaps(parsed_data)
                  @@ ExtractFinalGeometry(parsed_data)
                  @@ ExtractFormula(parsed_data)
                  @@ ExtractCalculationMetadata(parsed_data)

(***************************************************************************)
(* generate_rdf_from_cclib (src/py/parse_gaussian_cclib.py)                *)
(***************************************************************************)
Has(data, key) == key \in DOMAIN data

CclibSubId(base_name, kind, i) == base_name \o "/" \o kind \o "_" \o ToString(i)

CclibHeader(data, base_name) ==
    LET filename == Join(data["metadata"].filename)
        parsed_at == data["metadata"].parsed_at
    IN  << PrefixLine("cheminf", "http://semanticscience.org/resource/"),
           PrefixLine("dcterms", "http://purl.org/dc/terms/"),
           PrefixLine("ex", "https://example.org/gaussian#" \o base_name \o "/"),
           PrefixLine("ontocompchem", "http://www.theworldavatar.com/ontology/ontocompchem/"),
           PrefixLine("prov", "http://www.w3.org/ns/prov#"),
           PrefixLine("rdfs", "http://www.w3.org/2000/01/rdf-schema#"),
           PrefixLine("xsd", "http://www.w3.org/2001/XMLSchema#"),
           PrefixLine("units", "http://www.ontology-of-units-of-measure.org/resource/om-2/"),
           Blank,
           Comment("Data for molecule", base_name),
           Comment("Source file", filename),
           Comment("Generated", parsed_at),
           Blank,
           Head_(base_name, "a", "ontocompchem:QuantumCalculation", ";"),
           Cont(base_name, "dcterms:source", filename, ";"),
           Cont(base_name, "prov:generatedAtTime", parsed_at, ";"),
           Cont(base_name, "ontocompchem:hasParser", "cclib", ";"),
           Cont(base_name, "ontocompchem:hasParserVersion", data["metadata"].cclib_version, "."),
           Blank >>

CclibBasic(data, base_name) ==
    (IF Has(data, "natom")
     THEN << Head_(base_name, "ontocompchem:hasNAtoms", ToString(data["natom"]), ".") >>
     ELSE <<>>)
    \o (IF Has(data, "charge")
        THEN << Head_(base_name, "ontocompchem:hasCharge", ToString(data["charge"]), ".") >>
        ELSE <<>>)
    \o (IF Has(data, "mult")
        THEN << Head_(base_name, "ontocompchem:hasMultiplicity", ToString(data["mult"]), ".") >>
        ELSE <<>>)
    \o (IF Has(data, "molecular_formula")
        THEN << Head_(base_name, "ontocompchem:hasMolecularFormula",
                      data["molecular_formula"], ".") >>
        ELSE <<>>)

CclibScf(data, base_name) ==
    IF Has(data, "scfenergies")
    THEN Concat([i \in 1..Len(data["scfenergies"]) |->
            LET energy == data["scfenergies"][i]
                energy_hartree == DivFactor(energy, HartreeFactorShort)
                scf_id == CclibSubId(base_name, "scf", i)
            IN  << Head_(scf_id, "a", "ontocompchem:SCFEnergy", ";"),
                   Cont(scf_id, "ontocompchem:hasValue", Fmt(energy_hartree, 8), ";"),
                   Cont(scf_id, "ontocompchem:hasValueEV", Fmt(energy, 6), ";"),
                   Cont(scf_id, "ontocompchem:belongsTo", "ex:" \o base_name, ".") >>])
    ELSE <<>>

CclibGaps(data, base_name) ==
    IF Has(data, "homo_lumo_gaps")
    THEN Concat([i \in 1..Len(data["homo_lumo_gaps"]) |->
            LET gap_data == data["homo_lumo_gaps"][i]
                gap_id == CclibSubId(base_name, "gap", i)
            IN  << Head_(gap_id, "a", "ontocompchem:HOMOLUMOGap", ";"),
                   Cont(gap_id, "ontocompchem:hasHOMOEnergy", Fmt(gap_data.homo_energy_ev, 6), ";"),
                   Cont(gap_id, "ontocompchem:hasLUMOEnergy", Fmt(gap_data.lumo_energy_ev, 6), ";"),
                   Cont(gap_id, "ontocompchem:hasGapValue", Fmt(gap_data.gap_ev, 6), ";"),
                   Cont(gap_id, "ontocompchem:belongsTo", "ex:" \o base_name, ".") >>])
    ELSE <<>>

CclibVibrations(data, base_name) ==
    IF Has(data, "vibfreqs")
    THEN Concat([i \in 1..Len(data["vibfreqs"]) |->
            LET freq_id == CclibSubId(base_name, "freq", i)
            IN  << Head_(freq_id, "a", "ontocompchem:VibrationalFrequency", ";"),
                   Cont(freq_id, "ontocompchem:hasValue", Fmt(data["vibfreqs"][i], 2), ";"),
                   Cont(freq_id, "ontocompchem:belongsTo", "ex:" \o base_name, ".") >>])
    ELSE <<>>

(* data.get('atomsymbols', [str(atomic_num)])[i] if i < len(...) else str(atomic_num) *)
CclibElement(data, i, atomic_num) ==
    IF Has(data, "atomsymbols") /\ i <= Len(data["atomsymbols"])
    THEN data["atomsymbols"][i]
    ELSE ToString(atomic_num)

CclibAtoms(data, base_name) ==
    IF Has(data, "atomnos") /\ Has(data, "final_geometry")
    THEN Concat([i \in 1..ZipLen(data["atomnos"], data["final_geometry"]) |->
            LET atom_id == CclibSubId(base_name, "atom", i)
                atomic_num == data["atomnos"][i]
                coords == data["final_geometry"][i]
            IN  << Head_(atom_id, "a", "cheminf:Atom", ";"),
                   Cont(atom_id, "cheminf:hasAtomicNumber", ToString(atomic_num), ";"),
                   Cont(atom_id, "cheminf:hasElement", CclibElement(data, i, atomic_num), ";"),
                   Cont(atom_id, "cheminf:hasXCoordinate", Fmt(coords[1], 6), ";"),
                   Cont(atom_id, "cheminf:hasYCoordinate", Fmt(coords[2], 6), ";"),
                   Cont(atom_id, "cheminf:hasZCoordinate", Fmt(coords[3], 6), ";"),
                   Cont(atom_id, "cheminf:belongsTo", "ex:" \o base_name, ".") >>])
    ELSE <<>>

generate_rdf_from_cclib(data) ==
    IF Has(data, "error") THEN Ok(<< Comment("Error", data["error"]) >>)
    ELSE LET base_name == BaseName(data["metadata"].filename)
         IN  Ok(CclibHeader(data, base_name)
                \o CclibBasic(data, base_name)
                \o CclibScf(data, base_name)
                \o CclibGaps(data, base_name)
                \o CclibVibrations(data, base_name)
                \o CclibAtoms(data, base_name)
                \o << Blank >>)

(***************************************************************************)
(* gaussian_to_dict (src/py/parse_gaussian.py)                             *)
(***************************************************************************)
(* len(None), iteration over None and int(None) raise TypeError. *)
DictNoneRaise(data) ==
    \E a \in {"scfenergies", "atomnos", "atomcoords", "vibfreqs", "charge", "mult"} :
        HasAttr(data, a) /\ ~NotNone(data, a)

DictGapEntered(data) ==
    /\ NotNone(data, "moenergies") /\ Len(data.moenergies.v) > 0
    /\ NotNone(data, "homos") /\ Len(data.homos.v) > 0

DictHasLumo(data) ==
    /\ DictGapEntered(data)
    /\ data.homos.v[1] + 1 < Len(data.moenergies.v[1])

DictGapRaise(data) ==
    \/ HasAttr(data, "moenergies") /\ ~NotNone(data, "moenergies")
    \/ /\ NotNone(data, "moenergies") /\ Len(data.moenergies.v) > 0
       /\ HasAttr(data, "homos") /\ ~NotNone(data, "homos")
    \/ /\ DictHasLumo(data)
       /\ ~(/\ PyIndexOk(data.moenergies.v[1], data.homos.v[1] + 1)
            /\ PyIndexOk(data.moenergies.v[1], data.homos.v[1]))

DictMomentsRaise(data) == HasAttr(data, "moments") /\ ~NotNone(data, "moments")

(* np.linalg.norm(data.moments[0][:3]) *)
DictDipole(moment) == ISqrt(SumSeq([j \in 1..3 |-> moment[j] * moment[j]]))

DictMethod(data) ==
    IF NotNone(data, "metadata")
       /\ data.metadata.v.methods.st = "val" /\ data.metadata.v.methods.v # <<>>
    THEN [k \in {"method"} |-> data.metadata.v.methods.v[1]]
    ELSE <<>>

DictBasis(data) ==
    IF NotNone(data, "metadata") /\ data.metadata.v.basis_set.st = "val"
    THEN [k \in {"basis"} |-> data.metadata.v.basis_set.v]
    ELSE <<>>

DictConverged(data) ==
    IF NotNone(data, "metadata") /\ data.metadata.v.finished.st = "val"
    THEN [k \in {"converged"} |-> data.metadata.v.finished.v]
    ELSE <<>>

gaussian_to_dict(parsed, file_path) ==
    IF parsed.st # "val"
    THEN [status |-> "raised", result |-> <<>>,
          what |-> "RuntimeError: Error parsing Gaussian file " \o Join(file_path)]
    ELSE LET data == parsed.v
         IN  IF DictNoneRaise(data) \/ DictGapRaise(data) \/ DictMomentsRaise(data)
             THEN [status |-> "raised", result |-> <<>>,
                   what |-> "RuntimeError: Error parsing Gaussian file " \o Join(file_path)]
             ELSE [status |-> "ok", what |-> "", result |->
                    DictMethod(data) @@ DictBasis(data) @@ DictConverged(data)
                    @@ (IF NotNone(data, "scfenergies") /\ Len(data.scfenergies.v) > 0
                        THEN [k \in {"scf_energy"} |-> PyIndex(data.scfenergies.v, -1)]
                        ELSE <<>>)
                    @@ (IF NotNone(data, "atomnos")
                        THEN [k \in {"atoms"} |-> data.atomnos.v] ELSE <<>>)
                    @@ (IF NotNone(data, "atomcoords") /\ Len(data.atomcoords.v) > 0
                        THEN [k \in {"coordinates"} |-> PyIndex(data.atomcoords.v, -1)]
                        ELSE <<>>)
                    @@ (IF NotNone(data, "vibfreqs")
                        THEN [k \in {"frequencies"} |-> data.vibfreqs.v] ELSE <<>>)
                    @@ (IF NotNone(data, "charge")
                        THEN [k \in {"charge"} |-> data.charge.v] ELSE <<>>)
                    @@ (IF NotNone(data, "mult")
                        THEN [k \in {"multiplicity"} |-> data.mult.v] ELSE <<>>)
                    @@ (IF DictHasLumo(data)
                        THEN [k \in {"homo_lumo_gap"} |->
                                PyIndex(data.moenergies.v[1], data.homos.v[1] + 1)
                                - PyIndex(data.moenergies.v[1], data.homos.v[1])]
                        ELSE <<>>)
                    @@ (IF NotNone(data, "moments") /\ Len(data.moments.v) > 0
                           /\ Len(data.moments.v[1]) >= 3
                        THEN [k \in {"dipole_moment"} |-> DictDipole(data.moments.v[1])]
                        ELSE <<>>)]

(***************************************************************************)
(* dict_to_graph (src/py/parse_gaussian.py).  The graph is the sequence of *)
(* the triples added; a blank node is named by the variable that holds it  *)
(* and, inside a loop, the iteration that created it.                      *)
(***************************************************************************)
Triple(s, p, o) == Head_(s, p, o, ".")

BNode(name) == "_:" \o name
BNodeAt(name, i) == "_:" \o name \o ToString(i)

(* main: the URI of the calculation. *)
FileUri(metadata, filepath) ==
    IF metadata.filename.st = "val" /\ metadata.filename.v # <<>>
    THEN "https://example.org/gaussian/" \o Join(metadata.filename.v)
    ELSE "https://example.org/gaussian/" \o Join(SplitextRoot(Basename(filepath)))

GraphMetadata(calc_uri, metadata, now) ==
    << Triple(calc_uri, "rdf:type", "ontocompchem:QuantumCalculation") >>
    \o (IF metadata.filename.st = "val" /\ metadata.filename.v # <<>>
        THEN << Triple(calc_uri, "dcterms:title", Join(metadata.filename.v)) >>
        ELSE <<>>)
    \o << Triple(calc_uri, "dcterms:created",
                 IF metadata.timestamp.st = "val" /\ metadata.timestamp.v # <<>>
                 THEN Join(metadata.timestamp.v) ELSE ToString(now)),
          Triple(calc_uri, "ex:schemaVersion", "0.1.0"),
          Triple(calc_uri, "ex:parserVersion", "0.1.0") >>

GraphMethod(calc_data, calc_uri) ==
    (IF Has(calc_data, "method") /\ calc_data["method"] # ""
     THEN << Triple(calc_uri, "ontocompchem:hasComputationalMethod", BNode("method_node")),
             Triple(BNode("method_node"), "rdf:type", "ontocompchem:ComputationalMethod"),
             Triple(BNode("method_node"), "rdfs:label", calc_data["method"]) >>
     ELSE <<>>)
    \o (IF Has(calc_data, "basis") /\ calc_data["basis"] # ""
        THEN << Triple(calc_uri, "ontocompchem:hasBasisSet", BNode("basis_node")),
                Triple(BNode("basis_node"), "rdf:type", "ontocompchem:BasisSet"),
                Triple(BNode("basis_node"), "rdfs:label", calc_data["basis"]) >>
        ELSE <<>>)

GraphScf(calc_data, calc_uri) ==
    IF Has(calc_data, "scf_energy")
    THEN << Triple(calc_uri, "ontocompchem:hasSCFEnergy", BNode("energy_node")),
            Triple(BNode("energy_node"), "rdf:type", "ontocompchem:SCFEnergy"),
            Triple(BNode("energy_node"), "ontocompchem:hasValue", Repr(calc_data["scf_energy"])),
            Triple(BNode("energy_node"), "ontocompchem:hasUnit", "eV") >>
    ELSE <<>>

GraphAtoms(calc_data, calc_uri) ==
    IF /\ Has(calc_data, "atoms") /\ calc_data["atoms"] # <<>>
       /\ Has(calc_data, "coordinates") /\ calc_data["coordinates"] # <<>>
    THEN << Triple(calc_uri, "ontocompchem:hasMolecularStructure", BNode("mol_node")),
            Triple(BNode("mol_node"), "rdf:type", "cheminf:MolecularStructure") >>
         \o Concat([i \in 1..ZipLen(calc_data["atoms"], calc_data["coordinates"]) |->
                LET atom_node == BNodeAt("atom_node", i)
                    coords == calc_data["coordinates"][i]
                IN  << Triple(BNode("mol_node"), "cheminf:hasAtom", atom_node),
                       Triple(atom_node, "rdf:type", "cheminf:Atom"),
                       Triple(atom_node, "cheminf:hasAtomicNumber",
                              ToString(calc_data["atoms"][i])),
                       Triple(atom_node, "ex:hasXCoordinate", Repr(coords[1])),
                       Triple(atom_node, "ex:hasYCoordinate", Repr(coords[2])),
                       Triple(atom_node, "ex:hasZCoordinate", Repr(coords[3])) >>])
    ELSE <<>>

GraphFrequencies(calc_data, calc_uri) ==
    IF Has(calc_data, "frequencies") /\ calc_data["frequencies"] # <<>>
    THEN << Triple(calc_uri, "ontocompchem:hasVibrationalFrequencies", BNode("freq_collection")),
            Triple(BNode("freq_collection"), "rdf:type",
                   "ontocompchem:VibrationalFrequencyCollection") >>
         \o Concat([i \in 1..Len(calc_data["frequencies"]) |->
                LET freq_node == BNodeAt("freq_node", i)
                IN  << Triple(BNode("freq_collection"), "ontocompchem:hasFrequency", freq_node),
                       Triple(freq_node, "rdf:type", "ontocompchem:VibrationalFrequency"),
                       Triple(freq_node, "ontocompchem:hasValue",
                              Repr(calc_data["frequencies"][i])),
                       Triple(freq_node, "ontocompchem:hasUnit", "cm^-1") >>])
    ELSE <<>>

GraphElectronic(calc_data, calc_uri) ==
    (IF Has(calc_data, "charge")
     THEN << Triple(calc_uri, "cheminf:hasCharge", ToString(calc_data["charge"])) >>
     ELSE <<>>)
    \o (IF Has(calc_data, "multiplicity")
        THEN << Triple(calc_uri, "cheminf:hasMultiplicity",
                       ToString(calc_data["multiplicity"])) >>
        ELSE <<>>)
    \o (IF Has(calc_data, "homo_lumo_gap")
        THEN << Triple(calc_uri, "ontocompchem:hasHOMOLUMOGap", BNode("gap_node")),
                Triple(BNode("gap_node"), "rdf:type", "ontocompchem:HOMOLUMOGap"),
                Triple(BNode("gap_node"), "ontocompchem:hasValue",
                       Repr(calc_data["homo_lumo_gap"])),
                Triple(BNode("gap_node"), "ontocompchem:hasUnit", "eV") >>
        ELSE <<>>)
    \o (IF Has(calc_data, "dipole_moment")
        THEN << Triple(calc_uri, "ontocompchem:hasDipoleMoment", BNode("dipole_node")),
                Triple(BNode("dipole_node"), "rdf:type", "ontocompchem:DipoleMoment"),
                Triple(BNode("dipole_node"), "ontocompchem:hasValue",
                       Repr(calc_data["dipole_moment"])),
                Triple(BNode("dipole_node"), "ontocompchem:hasUnit", "Debye") >>
        ELSE <<>>)

(* calc_data.get('converged', False) *)
GraphConverged(calc_data, calc_uri) ==
    << Triple(calc_uri, "ontocompchem:hasConverged",
              IF Has(calc_data, "converged") /\ calc_data["converged"]
              THEN "true" ELSE "false") >>

GraphProvenance(calc_uri, metadata) ==
    << Triple(calc_uri, "prov:wasGeneratedBy", BNode("gaussian_software")),
       Triple(BNode("gaussian_software"), "rdf:type", "prov:Activity"),
       Triple(BNode("gaussian_software"), "rdf:type", "ex:GaussianRun"),
       Triple(BNode("gaussian_software"), "rdfs:label", "Gaussian 16 Calculation") >>
    \o (IF metadata.software_version.st = "val"
        THEN << Triple(BNode("gaussian_software"), "prov:used",
                       "Gaussian " \o metadata.software_version.v) >>
        ELSE <<>>)

dict_to_graph(calc_data, file_uri, metadata, now) ==
    Ok(GraphMetadata(file_uri, metadata, now)
       \o GraphMethod(calc_data, file_uri)
       \o GraphScf(calc_data, file_uri)
       \o GraphAtoms(calc_data, file_uri)
       \o GraphFrequencies(calc_data, file_uri)
       \o GraphElectronic(calc_data, file_uri)
       \o GraphConverged(calc_data, file_uri)
       \o GraphProvenance(file_uri, metadata))

(***************************************************************************)
(* The inputs the model draws: result objects of the parser, metadata and  *)
(* file paths.                                                             *)
(***************************************************************************)
Attrs ==
    CclibAttrs \cup
    {"atommasses", "moenergies", "homos", "vibirs", "vibramans", "etenergies", "etoscs",
     "atomcharges", "moments", "nbasis", "nmo", "optdone", "polarizabilities", "metadata"}

EmptyResult == [a \in Attrs |-> Missing]

SeqsUpTo(S, n) == UNION {[1..k -> S] : k \in 0..n}

Opt(S) == {Missing, None} \cup {Some(x) : x \in S}

(* Cartesian coordinates of atom i in a frame of flavour c. *)
Coord(c, i) == <<15 * c + 100 * i, -(5 * c) - 100 * i, 4 * c>>

Frame(c, n) == [i \in 1..n |-> Coord(c, i)]

FrameSeqs ==
    UNION {{[j \in 1..f |-> Frame(flavours[j], n)] : flavours \in [1..f -> {1, 2}]} :
           n \in 0..MaxAtoms, f \in 0..MaxFrames}

EnergyValues == {-15, 4, 25}

SampleScf == <<-15, 25>>

(* Orbital energies of a spin channel: ascending, a different ladder per spin. *)
OrbitalEnergy(spin, i) == 200 * i - 445 + 30 * spin + 10 * i * i

Channel(spin, n) == [i \in 1..n |-> OrbitalEnergy(spin, i)]

ChannelSeqs ==
    {<<>>} \cup {<<Channel(0, n)>> : n \in 0..MaxOrbitals}
           \cup {<<Channel(0, n), Channel(1, n)>> : n \in 0..MaxOrbitals}

HomoIndices == -2..MaxOrbitals

HomoSeqs ==
    {<<>>} \cup {<<h>> : h \in HomoIndices}
           \cup {<<h, h>> : h \in HomoIndices}
           \cup {<<h, h - 1>> : h \in HomoIndices}

GeometryResults ==
    {[EmptyResult EXCEPT !["atomnos"] = a, !["atomcoords"] = c,
                         !["scfenergies"] = Some(SampleScf)] :
        a \in Opt(SeqsUpTo({1, 6}, MaxAtoms)), c \in Opt(FrameSeqs)}

Methane == <<6, 1, 1, 1, 1>>

FormulaResults ==
    {[EmptyResult EXCEPT !["atomnos"] = Some(a)] :
        a \in SeqsUpTo(AtomicNumbers, MaxAtoms + 1) \cup {Methane}}

(* Orbital energies -10, -5, -1 and 2 eV. *)
ExampleOrbitals == [i \in 1..4 |-> <<-10, -5, -1, 2>>[i] * Pow10(TickDigits)]

OrbitalResults ==
    {[EmptyResult EXCEPT !["moenergies"] = m, !["homos"] = h,
                         !["scfenergies"] = Some(SampleScf)] :
        m \in Opt(ChannelSeqs), h \in Opt(HomoSeqs)}
    \cup {[EmptyResult EXCEPT !["moenergies"] = Some(<<ExampleOrbitals>>),
                              !["homos"] = Some(<<1>>)]}

(* An energy large enough for the digits of the conversion factor to show: *)
(* -200 eV, beside a small one.                                            *)
LargeScf == <<-2000000000, 25>>

ScfResults ==
    {[EmptyResult EXCEPT !["scfenergies"] = e] : e \in Opt(SeqsUpTo(EnergyValues, MaxRuns))}
    \cup {[EmptyResult EXCEPT !["scfenergies"] = Some(LargeScf)]}

SampleCharges ==
    << [charge_type |-> "mulliken", charges |-> <<-4, 4>>],
       [charge_type |-> "lowdin", charges |-> <<-15, 15>>] >>

(* Whole groups of attributes present or missing together. *)
EntityResults ==
    {[EmptyResult EXCEPT
        !["scfenergies"] = IF "scf" \in on THEN Some(SampleScf) ELSE Missing,
        !["vibfreqs"] = IF "vib" \in on THEN Some(<<-1234567, 16000000>>) ELSE Missing,
        !["vibirs"] = IF "vib" \in on THEN Some(<<250000>>) ELSE Missing,
        !["vibramans"] = IF "vib" \in on THEN None ELSE Missing,
        !["etenergies"] = IF "et" \in on THEN Some(<<30000000, 40000000>>) ELSE Missing,
        !["etoscs"] = IF "et" \in on THEN Some(<<12, 15>>) ELSE Missing,
        !["atomcharges"] = IF "chg" \in on THEN Some(SampleCharges) ELSE Missing,
        !["atomnos"] = IF "geo" \in on THEN Some(<<6, 1>>) ELSE Missing,
        !["atomcoords"] = IF "geo" \in on THEN Some(<<Frame(1, 2), Frame(2, 2)>>) ELSE Missing,
        !["natom"] = IF "geo" \in on THEN Some(2) ELSE Missing,
        !["moenergies"] = IF "mo" \in on THEN Some(<<Channel(0, 2), Channel(1, 2)>>) ELSE Missing,
        !["homos"] = IF "mo" \in on THEN Some(<<0, 0>>) ELSE Missing] :
        on \in SUBSET {"scf", "vib", "et", "chg", "geo", "mo"}}

(* Two lists of moment vectors: charge-first vectors, and the list cclib   *)
(* documents (origin, dipole, quadrupole).                                 *)
SampleMoments ==
    { << <<2000, 3000, 4000, 0>>, <<1000, 2000, 2000, 1000, 0, 0>> >>,
      << <<0, 0, 0>>, <<3000, 4000, 12000>>, <<1000, 2000, 3000, 4000, 5000, 6000>> >> }

SampleTensors ==
    << << <<105000000, 3000000, 0>>, <<3000000, 202500000, 0>>, <<0, 0, 310000000>> >>,
       << <<70000000, 1000000>>, <<1000000, 90000000>> >>,
       << <<-20000000, 0, 5000000>>, <<0, 45000000, 0>>, <<5000000, 0, 80000000>> >> >>

SampleMetadata ==
    {[methods |-> Some(<<"B3LYP">>), basis_set |-> Some("6-31G(d)"), finished |-> Some(TRUE)],
     [methods |-> Some(<<>>), basis_set |-> Missing, finished |-> Some(FALSE)],
     [methods |-> Missing, basis_set |-> Missing, finished |-> Missing]}

(* One attribute at a time, None or set. *)
ScalarResults ==
    UNION {{[EmptyResult EXCEPT ![a] = None], [EmptyResult EXCEPT ![a] = Some(25)]} :
           a \in {"natom", "charge", "mult", "nbasis", "nmo", "enthalpy", "freeenergy",
                  "entropy", "zpve", "temperature", "pressure"}}
    \cup {[EmptyResult EXCEPT !["optdone"] = Some(b)] : b \in BOOLEAN}
    \cup {[EmptyResult EXCEPT !["atommasses"] = Some(<<120000000, 10080000>>)],
          [EmptyResult EXCEPT !["polarizabilities"] = Some(SampleTensors)]}
    \cup {[EmptyResult EXCEPT !["moments"] = Some(m)] : m \in SampleMoments}
    \cup {[EmptyResult EXCEPT !["metadata"] = Some(m)] : m \in SampleMetadata}

Timestamps ==
    { <<"2", "0", "2", "3", "-", "1", "0", "-", "2", "5", "T", "1", "2", ":", "0", "0", "Z">>,
      <<"2", "0", "2", "4", "-", "0", "1", "-", "0", "1">> }

Filenames ==
    { <<"w", "a", "t", "e", "r", ".", "l", "o", "g">>,
      <<"C", "a", "l", "c", "_", "o", "p", "t", "_", "h", "2", "o", ".", "v", "1", ".", "l", "o", "g">>,
      <<"m", "y", " ", "r", "u", "n", ".", "o", "u", "t">> }

DefaultPath == <<"/", "d", "/", "w", "a", "t", "e", "r", ".", "l", "o", "g">>

FilePaths == {DefaultPath} \cup Filenames

FullMetadata ==
    [timestamp |-> Some(<<"2", "0", "2", "3", "-", "1", "0", "-", "2", "5", "T", "1", "2", ":", "0", "0", "Z">>),
     filename |-> Some(<<"w", "a", "t", "e", "r", ".", "l", "o", "g">>),
     software_version |-> Some("16.C.01")]

Metadatas ==
    {[timestamp |-> t, filename |-> f, software_version |-> v] :
        t \in {Missing} \cup {Some(x) : x \in Timestamps},
        f \in {Missing} \cup {Some(x) : x \in Filenames},
        v \in {Missing, Some("16.C.01")}}

Programs == {"cclib", "triples", "rdflib"}

(***************************************************************************)
(* State.                                                                  *)
(***************************************************************************)
VARIABLES
    prog,       \* the script that runs
    parsed,     \* what ccread returns: Some(result object), None, or a failure
    filepath,   \* the path of the source file
    metadata,   \* the metadata given by the caller
    clock,      \* datetime.now()
    data,       \* the record of the normalizer, once it has run
    runs,       \* the outputs of the encoder, one per call
    cli,        \* how the command-line entry point ended, once it has run
    typed,      \* the native types of the parser's attributes, and of the record made of them
    inv         \* the local variables of each of the invocations that run side by side

vars == <<prog, parsed, filepath, metadata, clock, data, runs, cli, typed, inv>>

ParseFailure == [st |-> "raises"]

(* No native types are followed in the runs of the encoders. *)
Untyped == [native |-> <<>>, record |-> Missing, out |-> Missing]

InitWith(results, metas, paths) ==
    /\ prog \in Programs
    /\ parsed \in results
    /\ metadata \in metas
    /\ filepath \in paths
    /\ clock = 0
    /\ data = Missing
    /\ runs = <<>>
    /\ cli = Missing
    /\ typed = Untyped
    /\ inv = <<>>

Init ==
    \/ InitWith({Some(r) : r \in GeometryResults \cup FormulaResults \cup OrbitalResults
                                 \cup ScfResults \cup EntityResults \cup ScalarResults},
                {FullMetadata}, {DefaultPath})
    \/ InitWith({Some(EmptyResult), Some([EmptyResult EXCEPT !["scfenergies"] = Some(SampleScf)]),
                 None, ParseFailure},
                Metadatas, FilePaths)

(***************************************************************************)
(* Steps.                                                                  *)
(***************************************************************************)
Tick ==
    /\ clock < MaxClock
    /\ clock' = clock + 1
    /\ UNCHANGED <<prog, parsed, filepath, metadata, data, runs, cli, typed, inv>>

ExtractCclibData ==
    /\ prog = "cclib"
    /\ data = Missing
    /\ data' = Some(extract_cclib_data(parsed, filepath, clock))
    /\ UNCHANGED <<prog, parsed, filepath, metadata, clock, runs, cli, typed, inv>>

GenerateRdfFromCclib ==
    /\ prog = "cclib"
    /\ data.st = "val"
    /\ Len(runs) < MaxRuns
    /\ runs' = Append(runs, generate_rdf_from_cclib(data.v))
    /\ UNCHANGED <<prog, parsed, filepath, metadata, clock, data, cli, typed, inv>>

GenerateRdfTriples ==
    /\ prog = "triples"
    /\ parsed.st = "val"
    /\ Len(runs) < MaxRuns
    /\ runs' = Append(runs, generate_rdf_triples(parsed.v, metadata, clock))
    /\ UNCHANGED <<prog, parsed, filepath, metadata, clock, data, cli, typed, inv>>

GaussianToDict ==
    /\ prog = "rdflib"
    /\ data = Missing
    /\ data' = Some(gaussian_to_dict(parsed, filepath))
    /\ UNCHANGED <<prog, parsed, filepath, metadata, clock, runs, cli, typed, inv>>

DictToGraph ==
    /\ prog = "rdflib"
    /\ data.st = "val"
    /\ data.v.status = "ok"
    /\ Len(runs) < MaxRuns
    /\ runs' = Append(runs, dict_to_graph(data.v.result, FileUri(metadata, filepath),
                                          metadata, clock))
    /\ UNCHANGED <<prog, parsed, filepath, metadata, clock, data, cli, typed, inv>>

Next ==
    \/ Tick
    \/ ExtractCclibData
    \/ GenerateRdfFromCclib
    \/ GenerateRdfTriples
    \/ GaussianToDict
    \/ DictToGraph

Spec == Init /\ [][Next]_vars

(***************************************************************************)
(* The command-line entry points: main of each script.  decodable says     *)
(* whether the metadata argument is valid JSON; what is printed is kept    *)
(* as a sequence of pieces per stream.                                     *)
(***************************************************************************)
OutputFormats == {"turtle", "json"}

Exited(code, stdout, stderr) == [exit |-> code, stdout |-> stdout, stderr |-> stderr]

TurtleText(lines) == [kind |-> "turtle", lines |-> lines]
JsonText == [kind |-> "json", lines |-> <<>>]

(* src/py/parse_gaussian_cclib.py: undecodable metadata becomes {} and the  *)
(* script never calls sys.exit once it has a file argument.                 *)
MainCclib(ccread, path, decodable, output_format, now) ==
    LET record == extract_cclib_data(ccread, path, now)
    IN  IF output_format = "json"
        THEN Exited(0, <<JsonText>>, <<>>)
        ELSE Exited(0, <<TurtleText(generate_rdf_from_cclib(record).lines)>>, <<>>)

(* src/eliza/agent/py/parse_gaussian_cclib.py *)
MainTriples(ccread, meta, decodable, output_format, now) ==
    IF ~decodable THEN Exited(1, <<>>, <<"Error: JSONDecodeError">>)
    ELSE IF ccread.st = "raises" THEN Exited(1, <<>>, <<"Error: ccread">>)
    ELSE IF ccread.st = "none" THEN Exited(1, <<>>, <<"Error: Could not parse file">>)
    ELSE IF output_format = "turtle"
    THEN LET rdf_output == generate_rdf_triples(ccread.v, meta, now)
         IN  IF rdf_output.status = "ok"
             THEN Exited(0, <<TurtleText(rdf_output.lines)>>, <<>>)
             ELSE Exited(1, <<>>, <<"Error: " \o rdf_output.what>>)
    ELSE Exited(0, <<JsonText>>, <<>>)

(* src/py/parse_gaussian.py *)
MainRdflib(ccread, path, meta, decodable, now) ==
    IF ~decodable THEN Exited(1, <<>>, <<"Error: JSONDecodeError">>)
    ELSE LET calc_data == gaussian_to_dict(ccread, path)
         IN  IF calc_data.status # "ok"
             THEN Exited(1, <<>>, <<"Error: " \o calc_data.what>>)
             ELSE Exited(0, <<TurtleText(dict_to_graph(calc_data.result, FileUri(meta, path),
                                                       meta, now).lines)>>, <<>>)

(* What main was given, beside how it ended. *)
Ended(decodable, output_format, outcome) ==
    Some([decodable |-> decodable, format |-> output_format, exit |-> outcome.exit,
          stdout |-> outcome.stdout, stderr |-> outcome.stderr])

RunMainCclib ==
    /\ prog = "cclib" /\ cli = Missing
    /\ \E decodable \in BOOLEAN, output_format \in OutputFormats :
            cli' = Ended(decodable, output_format,
                         MainCclib(parsed, filepath, decodable, output_format, clock))
    /\ UNCHANGED <<prog, parsed, filepath, metadata, clock, data, runs, typed, inv>>

RunMainTriples ==
    /\ prog = "triples" /\ cli = Missing
    /\ \E decodable \in BOOLEAN, output_format \in OutputFormats :
            cli' = Ended(decodable, output_format,
                         MainTriples(parsed, metadata, decodable, output_format, clock))
    /\ UNCHANGED <<prog, parsed, filepath, metadata, clock, data, runs, typed, inv>>

RunMainRdflib ==
    /\ prog = "rdflib" /\ cli = Missing
    /\ \E decodable \in BOOLEAN :
            cli' = Ended(decodable, "turtle",
                         MainRdflib(parsed, filepath, metadata, decodable, clock))
    /\ UNCHANGED <<prog, parsed, filepath, metadata, clock, data, runs, typed, inv>>

CliNext ==
    \/ RunMainCclib
    \/ RunMainTriples
    \/ RunMainRdflib

CliSpec == Init /\ [][CliNext]_vars

(***************************************************************************)
(* The native types of values.  A value is kept as its Python type t, the  *)
(* dtype.kind of an array, and the items of a container; the keys of the   *)
(* mappings are strings throughout.  The conversions below act on these    *)
(* as the code's isinstance tests do.                                      *)
(***************************************************************************)
Leaf(t) == [t |-> t, kind |-> "", items |-> <<>>]
Box(t, items) == [t |-> t, kind |-> "", items |-> items]
NdArray(kind, items) == [t |-> "ndarray", kind |-> kind, items |-> items]

(* The numpy scalar type of the elements of an array of a dtype kind. *)
ScalarOfKind(kind) ==
    CASE kind = "i" -> Leaf("np.integer")
      [] kind = "f" -> Leaf("np.floating")
      [] kind = "U" -> Leaf("np.str_")
      [] OTHER -> Leaf("object")

Vector(kind, n) == NdArray(kind, [i \in 1..n |-> ScalarOfKind(kind)])
Matrix(kind, rows, cols) == NdArray(kind, [r \in 1..rows |-> Vector(kind, cols)])

(* x.item() of a numpy scalar *)
PyScalar(x) ==
    CASE x.t = "np.integer" -> Leaf("int")
      [] x.t = "np.floating" -> Leaf("float")
      [] x.t = "np.str_" -> Leaf("str")
      [] OTHER -> x

RECURSIVE tolist(_)
(* ndarray.tolist(): nested lists of Python scalars *)
tolist(arr) ==
    Box("list", [i \in DOMAIN arr.items |->
                    IF arr.items[i].t = "ndarray" THEN tolist(arr.items[i])
                    ELSE PyScalar(arr.items[i])])

RECURSIVE FlatCount(_)
(* len(arr.flatten()) *)
FlatCount(arr) ==
    IF arr.t = "ndarray"
    THEN SumSeq([i \in DOMAIN arr.items |-> FlatCount(arr.items[i])])
    ELSE 1

(* safe_array_to_list (src/py/parse_gaussian_cclib.py) on the native type   *)
(* of arr; the items of a list or tuple are copied as they are.             *)
SafeArrayToListNative(arr) ==
    CASE arr.t \in {"list", "tuple"} -> Box("list", arr.items)
      [] arr.t = "ndarray" ->
            IF arr.kind \in {"i", "f", "U"} THEN tolist(arr)
            ELSE Box("list", [i \in 1..FlatCount(arr) |-> Leaf("str")])
      [] arr.t = "timedelta" -> Leaf("float")
      [] OTHER -> arr

RECURSIVE numpy_to_python(_)
(* numpy_to_python (src/eliza/agent/py/parse_gaussian_cclib.py) *)
numpy_to_python(obj) ==
    CASE obj.t = "ndarray" -> tolist(obj)
      [] obj.t = "np.integer" -> Leaf("int")
      [] obj.t = "np.floating" -> Leaf("float")
      [] obj.t \in {"dict", "list"} ->
            Box(obj.t, [i \in DOMAIN obj.items |-> numpy_to_python(obj.items[i])])
      [] OTHER -> obj

StrDict(n) == Box("dict", [i \in 1..n |-> Leaf("str")])

(* The types of the record of extract_cclib_data, lines 72-146, for a      *)
(* result object whose set attributes have the types native.               *)
ExtractCclibTypes(native) ==
    [k \in {"metadata"} |-> StrDict(5)]
    @@ [attr \in CclibAttrs \cap DOMAIN native |-> SafeArrayToListNative(native[attr])]
    @@ (IF "atomnos" \in DOMAIN native
        THEN [k \in {"atomsymbols"} |->
                 Box("list", [i \in DOMAIN native["atomnos"].items |-> Leaf("str")])]
             @@ [k \in {"molecular_formula"} |-> Leaf("str")]
        ELSE <<>>)
    @@ (IF {"moenergies", "homos"} \subseteq DOMAIN native
        THEN [k \in {"homo_lumo_gaps"} |->
                 Box("list", [i \in 1..ZipLen(native["moenergies"].items, native["homos"].items) |->
                     Box("dict", <<Leaf("int"), Leaf("np.floating"), Leaf("np.floating"),
                                   Leaf("np.floating"), Leaf("np.floating")>>)])]
        ELSE <<>>)
    @@ (IF "atomcoords" \in DOMAIN native
        THEN [k \in {"final_geometry"} |->
                 SafeArrayToListNative(PyIndex(native["atomcoords"].items, -1))]
        ELSE <<>>)
    @@ (IF "metadata" \in DOMAIN native
        THEN [k \in {"calculation_metadata"} |-> native["metadata"]]
        ELSE <<>>)

(* The list of attributes extract_all_cclib_data reads. *)
cclib_attributes ==
    {"aonames", "aooverlaps", "atombasis", "atomcharges", "atomcoords",
     "atommasses", "atomnos", "atomspins", "ccenergies", "charge",
     "coreelectrons", "dispersionenergies", "enthalpy", "entropy",
     "etenergies", "etoscs", "etdips", "etveldips", "etmagdips", "etrotats",
     "etsecs", "etsyms", "freeenergy", "fonames", "fooverlaps", "fragnames",
     "frags", "gbasis", "geotargets", "geovalues", "grads", "hessian",
     "homos", "metadata", "mocoeffs", "moenergies", "moments", "mosyms",
     "mpenergies", "mult", "natom", "nbasis", "nmo", "nmrtensors",
     "nmrcouplingtensors", "nocoeffs", "nooccnos", "nsocoeffs", "nsooccnos",
     "optdone", "optstatus", "polarizabilities", "pressure", "rotconsts",
     "scancoords", "scanenergies", "scannames", "scanparm", "scfenergies",
     "scftargets", "scfvalues", "temperature", "time", "transprop",
     "vibanharms", "vibdisps", "vibfreqs", "vibfconsts", "vibirs",
     "vibramans", "vibrmasses", "vibsyms", "zpve"}

extract_all_cclib_data(native) ==
    [attr \in cclib_attributes \cap DOMAIN native |-> numpy_to_python(native[attr])]

(* The types cclib documents for the attributes of its result object; n is *)
(* the length of the arrays.                                               *)
NativeAttribute(attr, n) ==
    CASE attr \in {"atomnos", "homos", "coreelectrons"} -> Vector("i", n)
      [] attr \in {"scfenergies", "vibfreqs", "rotconsts", "atommasses"} -> Vector("f", n)
      [] attr = "atomcoords" -> NdArray("f", [f \in 1..n |-> Matrix("f", n, 3)])
      [] attr = "hessian" -> Matrix("f", n, n)
      [] attr \in {"moenergies", "moments"} -> Box("list", [s \in 1..n |-> Vector("f", n)])
      [] attr = "polarizabilities" -> Box("list", [s \in 1..n |-> Matrix("f", 3, 3)])
      [] attr = "atomcharges" -> Box("dict", [s \in 1..n |-> Vector("f", n)])
      [] attr = "mosyms" ->
            Box("list", [s \in 1..n |-> Box("list", [i \in 1..n |-> Leaf("str")])])
      [] attr \in {"charge", "mult", "natom", "nbasis"} -> Leaf("int")
      [] attr = "optdone" -> Leaf("bool")
      [] OTHER -> Leaf("float")

TypedAttributes ==
    {"atomnos", "homos", "coreelectrons", "scfenergies", "vibfreqs", "rotconsts",
     "atommasses", "atomcoords", "hessian", "moenergies", "moments", "polarizabilities",
     "atomcharges", "mosyms", "charge", "mult", "optdone", "enthalpy", "zpve"}

(* The entries of ccData.metadata beside package and package_version:      *)
(* cclib keeps cpu_time and wall_time as lists of datetime.timedelta.      *)
MetadataEntry(key) ==
    CASE key = "methods" -> Box("list", <<Leaf("str")>>)
      [] key = "success" -> Leaf("bool")
      [] key \in {"cpu_time", "wall_time"} -> Box("list", <<Leaf("timedelta")>>)

MetadataKeys == <<"methods", "success", "cpu_time", "wall_time">>

NativeMetadata(keys) ==
    LET present == SelectSeq(MetadataKeys, LAMBDA k : k \in keys)
    IN  Box("dict", <<Leaf("str"), Leaf("str")>>
                    \o [i \in DOMAIN present |-> MetadataEntry(present[i])])

NativeResults ==
    {[a \in {attr} |-> NativeAttribute(attr, n)] : attr \in TypedAttributes, n \in 1..MaxAtoms}
    \cup {[a \in {"moenergies", "homos", "atomnos", "atomcoords"} |-> NativeAttribute(a, n)] :
              n \in 1..MaxAtoms}
    \cup {[a \in {"metadata"} |-> NativeMetadata(keys)] :
              keys \in SUBSET {MetadataKeys[i] : i \in DOMAIN MetadataKeys}}

TypedInit ==
    /\ prog \in {"cclib", "triples"}
    /\ parsed = Some(EmptyResult)
    /\ metadata = FullMetadata
    /\ filepath = DefaultPath
    /\ clock = 0
    /\ data = Missing
    /\ runs = <<>>
    /\ cli = Missing
    /\ typed \in {[native |-> n, record |-> Missing, out |-> Missing] : n \in NativeResults}
    /\ inv = <<>>

(* data = extract_cclib_data(filepath) *)
ExtractCclibRecord ==
    /\ prog = "cclib" /\ typed.record = Missing
    /\ typed' = [typed EXCEPT !.record = Some(ExtractCclibTypes(typed.native))]
    /\ UNCHANGED <<prog, parsed, filepath, metadata, clock, data, runs, cli, inv>>

(* all_data = extract_all_cclib_data(data) *)
ExtractAllCclibData ==
    /\ prog = "triples" /\ typed.record = Missing
    /\ typed' = [typed EXCEPT !.record = Some(extract_all_cclib_data(typed.native))]
    /\ UNCHANGED <<prog, parsed, filepath, metadata, clock, data, runs, cli, inv>>

(* main of src/py/parse_gaussian_cclib.py, lines 267-273: the record is    *)
(* printed as JSON or handed to generate_rdf_from_cclib, which only reads  *)
(* it.                                                                     *)
PrintCclibRecord ==
    /\ prog = "cclib" /\ typed.record # Missing /\ typed.out = Missing
    /\ \E output_format \in OutputFormats :
            typed' = [typed EXCEPT !.out = Some(output_format)]
    /\ UNCHANGED <<prog, parsed, filepath, metadata, clock, data, runs, cli, inv>>

(* extracted_data['metadata'] = metadata; extracted_data['cclib_version']  *)
(* = cclib.__version__                                                     *)
WithOutputFields(extracted_data) ==
    [key \in DOMAIN extracted_data \cup {"metadata", "cclib_version"} |->
        CASE key = "metadata" -> StrDict(3)
          [] key = "cclib_version" -> Leaf("str")
          [] OTHER -> extracted_data[key]]

(* main of src/eliza/agent/py/parse_gaussian_cclib.py, the json format *)
PrintJsonTriples ==
    /\ prog = "triples" /\ typed.record # Missing /\ typed.out = Missing
    /\ typed' = [typed EXCEPT !.record = Some(WithOutputFields(typed.record.v)),
                              !.out = Some("json")]
    /\ UNCHANGED <<prog, parsed, filepath, metadata, clock, data, runs, cli, inv>>

TypedNext ==
    \/ ExtractCclibRecord
    \/ ExtractAllCclibData
    \/ PrintCclibRecord
    \/ PrintJsonTriples

TypedSpec == TypedInit /\ [][TypedNext]_vars

(***************************************************************************)
(* Invocations side by side.  Each invocation is a process of its own: its *)
(* arguments and the local variables of main are the fields of inv[i];     *)
(* the scripts have no module-level variable that a call writes.  The wall *)
(* clock is the one thing the invocations have in common.                  *)
(***************************************************************************)
Invocations == 1..2

ArgumentSets ==
    {[parsed |-> Some([EmptyResult EXCEPT !["scfenergies"] = Some(SampleScf)]),
      filepath |-> DefaultPath, metadata |-> FullMetadata],
     [parsed |-> Some([EmptyResult EXCEPT !["atomnos"] = Some(<<6, 1>>),
                                          !["atomcoords"] = Some(<<Frame(1, 2)>>)]),
      filepath |-> <<"m", "y", " ", "r", "u", "n", ".", "o", "u", "t">>,
      metadata |-> [FullMetadata EXCEPT !.filename = Some(<<"b", ".", "l", "o", "g">>)]],
     [parsed |-> Some(EmptyResult), filepath |-> DefaultPath, metadata |-> FullMetadata],
     [parsed |-> Some(EmptyResult),
      filepath |-> <<"/", "d", "/", "m", "y", "_", "r", "u", "n", ".", "l", "o", "g">>,
      metadata |-> FullMetadata],
     [parsed |-> None, filepath |-> DefaultPath, metadata |-> FullMetadata]}

Started(args) ==
    [parsed |-> args.parsed, filepath |-> args.filepath, metadata |-> args.metadata,
     data |-> Missing, out |-> Missing]

ConcurrentInit ==
    /\ prog \in Programs
    /\ parsed = Some(EmptyResult)
    /\ metadata = FullMetadata
    /\ filepath = DefaultPath
    /\ clock = 0
    /\ data = Missing
    /\ runs = <<>>
    /\ cli = Missing
    /\ typed = Untyped
    /\ inv \in [Invocations -> {Started(args) : args \in ArgumentSets}]

(* A global in place of the local variable. *)
SharedData(locals, i) == locals[1].data

(* The local variable data (calc_data) of invocation i. *)
OwnData(locals, i) == locals[i].data

(* data = extract_cclib_data(filepath) in invocation i *)
InvExtractCclibData ==
    /\ prog = "cclib"
    /\ \E i \in Invocations :
        /\ inv[i].data = Missing
        /\ inv' = [inv EXCEPT ![i].data =
                        Some(extract_cclib_data(inv[i].parsed, inv[i].filepath, clock))]
    /\ UNCHANGED <<prog, parsed, filepath, metadata, clock, data, runs, cli, typed>>

(* rdf_output = generate_rdf_from_cclib(data, metadata) in invocation i *)
InvGenerateRdfFromCclib ==
    /\ prog = "cclib"
    /\ \E i \in Invocations :
        /\ inv[i].data # Missing /\ inv[i].out = Missing
        /\ OwnData(inv, i) # Missing
        /\ inv' = [inv EXCEPT ![i].out = Some(generate_rdf_from_cclib(OwnData(inv, i).v))]
    /\ UNCHANGED <<prog, parsed, filepath, metadata, clock, data, runs, cli, typed>>

(* rdf_output = generate_rdf_triples(data, metadata) in invocation i *)
InvGenerateRdfTriples ==
    /\ prog = "triples"
    /\ \E i \in Invocations :
        /\ inv[i].parsed.st = "val" /\ inv[i].out = Missing
        /\ inv' = [inv EXCEPT ![i].out =
                        Some(generate_rdf_triples(inv[i].parsed.v, inv[i].metadata, clock))]
    /\ UNCHANGED <<prog, parsed, filepath, metadata, clock, data, runs, cli, typed>>

(* calc_data = gaussian_to_dict(args.file_path) in invocation i *)
InvGaussianToDict ==
    /\ prog = "rdflib"
    /\ \E i \in Invocations :
        /\ inv[i].data = Missing
        /\ inv' = [inv EXCEPT ![i].data =
                        Some(gaussian_to_dict(inv[i].parsed, inv[i].filepath))]
    /\ UNCHANGED <<prog, parsed, filepath, metadata, clock, data, runs, cli, typed>>

(* graph = dict_to_graph(calc_data, file_uri, metadata) in invocation i *)
InvDictToGraph ==
    /\ prog = "rdflib"
    /\ \E i \in Invocations :
        /\ inv[i].data # Missing /\ inv[i].out = Missing
        /\ OwnData(inv, i) # Missing
        /\ OwnData(inv, i).v.status = "ok"
        /\ inv' = [inv EXCEPT ![i].out =
                        Some(dict_to_graph(OwnData(inv, i).v.result,
                                           FileUri(inv[i].metadata, inv[i].filepath),
                                           inv[i].metadata, clock))]
    /\ UNCHANGED <<prog, parsed, filepath, metadata, clock, data, runs, cli, typed>>

ConcurrentNext ==
    \/ Tick
    \/ InvExtractCclibData
    \/ InvGenerateRdfFromCclib
    \/ InvGenerateRdfTriples
    \/ InvGaussianToDict
    \/ InvDictToGraph

ConcurrentSpec == ConcurrentInit /\ [][ConcurrentNext]_vars

(***************************************************************************)
(* Reading an output.                                                      *)
(***************************************************************************)
IsTypeLine(l) == l.k = "head" /\ l.p \in {"a", "rdf:type"}

(* The subjects typed ty, in the order of the output. *)
SubjectsTyped(lines, ty) ==
    LET hit(l) == IsTypeLine(l) /\ l.o = ty
        sel == SelectSeq(lines, hit)
    IN  [i \in DOMAIN sel |-> sel[i].s]

(* The objects of the statements with predicate p, in the order of the output. *)
ValuesOf(lines, p) ==
    LET hit(l) == IsStatement(l) /\ l.p = p
        sel == SelectSeq(lines, hit)
    IN  [i \in DOMAIN sel |-> sel[i].o]

(* The objects of the statements of subject sub with predicate p. *)
ValuesAt(lines, sub, p) ==
    LET hit(l) == IsStatement(l) /\ l.s = sub /\ l.p = p
        sel == SelectSeq(lines, hit)
    IN  [i \in DOMAIN sel |-> sel[i].o]

NoDuplicates(seq) == \A i, j \in DOMAIN seq : i # j => seq[i] # seq[j]

Succeeded(run) == run.status = "ok" /\ SubjectsTyped(run.lines, "ontocompchem:QuantumCalculation") # <<>>

(* The result object when the parser returned one. *)
Result == parsed.v

Obtained == parsed.st = "val"

(* No attribute of the result object is None. *)
NoneFree == Obtained /\ \A a \in Attrs : Result[a].st # "none"

CompleteMetadata == metadata.timestamp.st = "val" /\ metadata.filename.st = "val"

(***************************************************************************)
(* C1: encoding the same record twice with the same metadata yields the    *)
(* same output; nothing in it depends on the wall clock.  Within one       *)
(* behaviour every call of the encoder has the same record and metadata.   *)
(***************************************************************************)
C1_SameInputsSameOutput ==
    \A i, j \in DOMAIN runs : CompleteMetadata => runs[i] = runs[j]

(***************************************************************************)
(* C2: for an empty record and minimal metadata the encoder completes and  *)
(* emits exactly one QuantumCalculation subject and exactly one Molecule   *)
(* entity linked from it.                                                  *)
(***************************************************************************)
MinimalMetadata == CompleteMetadata /\ metadata.software_version.st = "absent"

LinkedMolecules(lines) ==
    LET calcs == Range(SubjectsTyped(lines, "ontocompchem:QuantumCalculation"))
        mols == Range(SubjectsTyped(lines, "cheminf:Molecule"))
    IN  {m \in mols : \E i \in DOMAIN lines :
            /\ IsStatement(lines[i]) /\ lines[i].s \in calcs
            /\ lines[i].o \in {m, "ex:" \o m}}

C2_EmptyRecordHasCalculationAndMolecule ==
    \A i \in DOMAIN runs :
        (parsed = Some(EmptyResult) /\ MinimalMetadata) =>
            /\ runs[i].status = "ok"
            /\ runs[i].lines # <<>>
            /\ Len(SubjectsTyped(runs[i].lines, "ontocompchem:QuantumCalculation")) = 1
            /\ Cardinality(LinkedMolecules(runs[i].lines)) = 1

(***************************************************************************)
(* C3: a derived property that cannot be computed is omitted alone: the    *)
(* record is not replaced by an error and the triples of the other fields  *)
(* (here the SCF energies) are still emitted.                              *)
(***************************************************************************)
ScfStatements(lines) ==
    LET hit(l) == IsStatement(l) /\
                  \/ l.p = "ontocompchem:hasSCFEnergy"
                  \/ IsTypeLine(l) /\ l.o = "ontocompchem:SCFEnergy"
    IN  SelectSeq(lines, hit)

C3_DerivedFailureOmitsOnlyThatProperty ==
    (NoneFree /\ CompleteMetadata) =>
        /\ (prog = "cclib" /\ data.st = "val") => ~Has(data.v, "error")
        /\ (prog = "rdflib" /\ data.st = "val") => data.v.status = "ok"
        /\ \A i \in DOMAIN runs :
            /\ runs[i].status = "ok"
            /\ (NotNone(Result, "scfenergies") /\ Result.scfenergies.v # <<>>)
                    => ScfStatements(runs[i].lines) # <<>>

(***************************************************************************)
(* C4: a spin channel whose HOMO index is the last orbital index gets its  *)
(* HOMO energy emitted, and no LUMO energy and no gap.                     *)
(***************************************************************************)
(* Every spin channel has its HOMO at the last orbital. *)
HomoIsLastEverywhere ==
    /\ NoneFree
    /\ NotNone(Result, "moenergies") /\ NotNone(Result, "homos")
    /\ Len(Result.moenergies.v) = Len(Result.homos.v)
    /\ Len(Result.homos.v) >= 1
    /\ \A s \in DOMAIN Result.homos.v :
        /\ Result.homos.v[s] >= 0
        /\ Result.homos.v[s] = Len(Result.moenergies.v[s]) - 1

C4_HomoWithoutLumo ==
    \A i \in DOMAIN runs :
        (prog \in {"cclib", "triples"} /\ HomoIsLastEverywhere /\ CompleteMetadata) =>
            /\ Succeeded(runs[i])
            /\ ValuesOf(runs[i].lines, "ontocompchem:hasHOMOEnergy")
                 = [s \in DOMAIN Result.homos.v |->
                        Fmt(Result.moenergies.v[s][Result.homos.v[s] + 1], 6)]
            /\ ValuesOf(runs[i].lines, "ontocompchem:hasLUMOEnergy") = <<>>
            /\ ValuesOf(runs[i].lines, "ontocompchem:hasHOMOLUMOGap") = <<>>
            /\ ValuesOf(runs[i].lines, "ontocompchem:hasGapValue") = <<>>

(***************************************************************************)
(* C5: for every spin channel with 0 <= homo_index and homo_index + 1      *)
(* inside the orbital energies, the emitted HOMO energy is                 *)
(* energies[homo_index], the LUMO energy is energies[homo_index + 1] and   *)
(* the gap is LUMO - HOMO.                                                 *)
(***************************************************************************)
(* The spin channel at 1-based position s has a HOMO and a LUMO. *)
ValidChannel(s) ==
    /\ Obtained
    /\ NotNone(Result, "moenergies") /\ NotNone(Result, "homos")
    /\ s \in DOMAIN Result.moenergies.v /\ s \in DOMAIN Result.homos.v
    /\ Result.homos.v[s] >= 0
    /\ Result.homos.v[s] + 1 < Len(Result.moenergies.v[s])

HomoOf(s) == Result.moenergies.v[s][Result.homos.v[s] + 1]
LumoOf(s) == Result.moenergies.v[s][Result.homos.v[s] + 2]

Channels == IF Obtained /\ NotNone(Result, "homos") THEN DOMAIN Result.homos.v ELSE {}

C5_CclibEntries ==
    (prog = "cclib" /\ data.st = "val" /\ Has(data.v, "homo_lumo_gaps")) =>
        \A k \in DOMAIN data.v["homo_lumo_gaps"] :
            LET g == data.v["homo_lumo_gaps"][k]
            IN  ValidChannel(g.spin + 1) =>
                    /\ g.homo_energy_ev = HomoOf(g.spin + 1)
                    /\ g.lumo_energy_ev = LumoOf(g.spin + 1)
                    /\ g.gap_ev = LumoOf(g.spin + 1) - HomoOf(g.spin + 1)

C5_CclibOutput(lines) ==
    \A s \in Channels : ValidChannel(s) =>
        \E k \in DOMAIN SubjectsTyped(lines, "ontocompchem:HOMOLUMOGap") :
            LET sub == SubjectsTyped(lines, "ontocompchem:HOMOLUMOGap")[k]
            IN  /\ ValuesAt(lines, sub, "ontocompchem:hasHOMOEnergy") = <<Fmt(HomoOf(s), 6)>>
                /\ ValuesAt(lines, sub, "ontocompchem:hasLUMOEnergy") = <<Fmt(LumoOf(s), 6)>>
                /\ ValuesAt(lines, sub, "ontocompchem:hasGapValue")
                     = <<Fmt(LumoOf(s) - HomoOf(s), 6)>>

C5_TriplesOutput(lines) ==
    LET homo == ValuesOf(lines, "ontocompchem:hasHOMOEnergy")
        lumo == ValuesOf(lines, "ontocompchem:hasLUMOEnergy")
        gap == ValuesOf(lines, "ontocompchem:hasHOMOLUMOGap")
    IN  /\ Len(lumo) = Len(gap)
        /\ \A s \in Channels : ValidChannel(s) =>
            /\ \E k \in DOMAIN homo : homo[k] = Fmt(HomoOf(s), 6)
            /\ \E k \in DOMAIN lumo :
                /\ lumo[k] = Fmt(LumoOf(s), 6)
                /\ gap[k] = Fmt(LumoOf(s) - HomoOf(s), 6)

(* dict_to_graph encodes the gap of the first spin channel only. *)
C5_GraphOutput(lines) ==
    ValidChannel(1) =>
        ValuesAt(lines, BNode("gap_node"), "ontocompchem:hasValue")
            = <<Repr(LumoOf(1) - HomoOf(1))>>

C5_HomoLumoGapValues ==
    /\ C5_CclibEntries
    /\ \A i \in DOMAIN runs : Succeeded(runs[i]) =>
        CASE prog = "cclib" -> C5_CclibOutput(runs[i].lines)
          [] prog = "triples" -> C5_TriplesOutput(runs[i].lines)
          [] prog = "rdflib" -> C5_GraphOutput(runs[i].lines)

(* The energies -10, -5, -1, 2 with HOMO index 1 were encoded as -5, -1 and 4. *)
C5_Witness ==
    /\ Obtained /\ NotNone(Result, "moenergies")
    /\ Result.moenergies.v = <<ExampleOrbitals>>
    /\ \E i \in DOMAIN runs :
        /\ Succeeded(runs[i])
        /\ \E l \in Range(runs[i].lines) :
                l.p = "ontocompchem:hasHOMOEnergy" /\ l.o = "-5.000000"
        /\ \E l \in Range(runs[i].lines) :
                l.p = "ontocompchem:hasLUMOEnergy" /\ l.o = "-1.000000"
        /\ \E l \in Range(runs[i].lines) :
                l.p \in {"ontocompchem:hasGapValue", "ontocompchem:hasHOMOLUMOGap"}
                /\ l.o = "4.000000"

(***************************************************************************)
(* C6: every SCF energy entry carries its value in eV and in Hartree,      *)
(* under two distinct predicates.                                          *)
(***************************************************************************)
(* The SCF energy values the output states in Hartree. *)
ScfHartreeValues(lines) ==
    CASE prog = "cclib" ->
            LET hit(l) == /\ IsStatement(l) /\ l.p = "ontocompchem:hasValue"
                          /\ l.s \in Range(SubjectsTyped(lines, "ontocompchem:SCFEnergy"))
            IN  SelectSeq(lines, hit)
      [] prog = "triples" ->
            LET hit(l) == IsStatement(l) /\ l.p = "ontocompchem:hasSCFEnergy"
            IN  SelectSeq(lines, hit)
      [] prog = "rdflib" -> <<>>

(* The SCF energy values the output states in eV. *)
ScfEvValues(lines) ==
    CASE prog = "cclib" ->
            LET hit(l) == IsStatement(l) /\ l.p = "ontocompchem:hasValueEV"
            IN  SelectSeq(lines, hit)
      [] prog = "triples" -> <<>>
      [] prog = "rdflib" ->
            LET hit(l) == /\ IsStatement(l) /\ l.p = "ontocompchem:hasValue"
                          /\ l.s \in Range(SubjectsTyped(lines, "ontocompchem:SCFEnergy"))
            IN  SelectSeq(lines, hit)

C6_ScfInBothUnits ==
    \A i \in DOMAIN runs : Succeeded(runs[i]) =>
        LET hartree == ScfHartreeValues(runs[i].lines)
            ev == ScfEvValues(runs[i].lines)
        IN  /\ Len(hartree) = Len(ev)
            /\ \A k \in DOMAIN hartree : hartree[k].p # ev[k].p

(***************************************************************************)
(* C7: the molecular formula lists the distinct element symbols in         *)
(* ascending order, each followed by its count when the count exceeds 1;   *)
(* it does not depend on the order of the atoms and is defined for every   *)
(* non-empty list of atomic numbers.                                       *)
(***************************************************************************)
CountOf(atomnos, num) == Cardinality({i \in DOMAIN atomnos : atomnos[i] = num})

FormulaPart(atomnos, num) ==
    IF CountOf(atomnos, num) = 0 THEN ""
    ELSE Element(num) \o (IF CountOf(atomnos, num) > 1
                          THEN ToString(CountOf(atomnos, num)) ELSE "")

(* "C" < "Cl" < "H" < "O" *)
ExpectedFormula(atomnos) ==
    FormulaPart(atomnos, 6) \o FormulaPart(atomnos, 17)
        \o FormulaPart(atomnos, 1) \o FormulaPart(atomnos, 8)

Swap(seq, i, j) == [seq EXCEPT ![i] = seq[j], ![j] = seq[i]]

C7_MolecularFormula ==
    (/\ prog = "cclib" /\ data.st = "val" /\ ~Has(data.v, "error")
     /\ Obtained /\ NotNone(Result, "atomnos")) =>
        LET atomnos == Result.atomnos.v
        IN  /\ Has(data.v, "molecular_formula")
            /\ data.v["molecular_formula"] = ExpectedFormula(atomnos)
            /\ atomnos # <<>> => data.v["molecular_formula"] # ""
            /\ \A i, j \in DOMAIN atomnos :
                    MolecularFormula(Swap(atomnos, i, j)) = data.v["molecular_formula"]
            /\ \A k \in DOMAIN runs :
                    ValuesOf(runs[k].lines, "ontocompchem:hasMolecularFormula")
                        = <<data.v["molecular_formula"]>>

(* One carbon and four hydrogens were encoded as CH4. *)
C7_Witness ==
    /\ prog = "cclib" /\ data.st = "val"
    /\ Obtained /\ Result.atomnos = Some(Methane)
    /\ runs # <<>>
    /\ ValuesOf(runs[1].lines, "ontocompchem:hasMolecularFormula") = <<"CH4">>

(***************************************************************************)
(* C8: a record with n atomic numbers and a final geometry of n coordinate *)
(* triplets yields exactly n atom entities; the entity at position i       *)
(* carries the atomic number and the x, y, z coordinates at position i.    *)
(***************************************************************************)
HasGeometry ==
    /\ Obtained /\ NotNone(Result, "atomcoords") /\ Result.atomcoords.v # <<>>

(* The final geometry of the record the encoder is given. *)
RecordGeometry ==
    CASE prog = "cclib" -> data.v["final_geometry"]
      [] prog = "triples" -> Result.atomcoords.v[Len(Result.atomcoords.v)]
      [] prog = "rdflib" -> data.v.result["coordinates"]

CoordinatePredicates ==
    IF prog = "rdflib"
    THEN <<"ex:hasXCoordinate", "ex:hasYCoordinate", "ex:hasZCoordinate">>
    ELSE <<"cheminf:hasXCoordinate", "cheminf:hasYCoordinate", "cheminf:hasZCoordinate">>

(* The text of a coordinate in the output of the encoder. *)
CoordinateText(v) == IF prog = "rdflib" THEN Repr(v) ELSE Fmt(v, 6)

(* The atom entity sub carries the coordinates xyz. *)
CarriesCoordinates(lines, sub, xyz) ==
    \A c \in 1..3 :
        ValuesAt(lines, sub, CoordinatePredicates[c]) = <<CoordinateText(xyz[c])>>

C8_OneAtomEntityPerAtom ==
    \A k \in DOMAIN runs :
        (/\ Succeeded(runs[k]) /\ HasGeometry /\ NotNone(Result, "atomnos")
         /\ Len(Result.atomnos.v) = Len(RecordGeometry)) =>
            LET atoms == SubjectsTyped(runs[k].lines, "cheminf:Atom")
            IN  /\ Len(atoms) = Len(Result.atomnos.v)
                /\ NoDuplicates(atoms)
                /\ \A i \in DOMAIN atoms :
                    /\ ValuesAt(runs[k].lines, atoms[i], "cheminf:hasAtomicNumber")
                         = <<ToString(Result.atomnos.v[i])>>
                    /\ CarriesCoordinates(runs[k].lines, atoms[i], RecordGeometry[i])

(* A record of as many atoms as the bound allows, two different elements, encoded. *)
C8_Witness ==
    /\ runs # <<>> /\ Succeeded(runs[1])
    /\ HasGeometry /\ NotNone(Result, "atomnos")
    /\ Len(Result.atomnos.v) = MaxAtoms
    /\ Len(RecordGeometry) = MaxAtoms
    /\ Result.atomnos.v[1] # Result.atomnos.v[2]
    /\ Len(SubjectsTyped(runs[1].lines, "cheminf:Atom")) = MaxAtoms

(***************************************************************************)
(* C9: the final geometry of the record, and the atom coordinates the      *)
(* encoder emits, are the last frame of the coordinate trajectory, never   *)
(* the first or an intermediate one.                                       *)
(***************************************************************************)
LastFrame == Result.atomcoords.v[Len(Result.atomcoords.v)]

C9_FinalGeometryIsLastFrame ==
    HasGeometry =>
        /\ (prog = "cclib" /\ data.st = "val" /\ ~Has(data.v, "error")) =>
                Has(data.v, "final_geometry") /\ data.v["final_geometry"] = LastFrame
        /\ (prog = "rdflib" /\ data.st = "val" /\ data.v.status = "ok") =>
                Has(data.v.result, "coordinates") /\ data.v.result["coordinates"] = LastFrame
        /\ \A k \in DOMAIN runs : Succeeded(runs[k]) =>
            LET atoms == SubjectsTyped(runs[k].lines, "cheminf:Atom")
            IN  /\ Len(atoms) <= Len(LastFrame)
                /\ \A i \in DOMAIN atoms :
                        CarriesCoordinates(runs[k].lines, atoms[i], LastFrame[i])

(* A trajectory whose first and last frames differ was encoded with its atoms. *)
C9_Witness ==
    /\ HasGeometry
    /\ Len(Result.atomcoords.v) >= 2
    /\ Result.atomcoords.v[1] # LastFrame
    /\ runs # <<>> /\ Succeeded(runs[1])
    /\ SubjectsTyped(runs[1].lines, "cheminf:Atom") # <<>>

(***************************************************************************)
(* C10: the identifier of a sub-entity (atom, frequency, transition, SCF   *)
(* energy, gap, orbital) is built from the calculation identifier, the     *)
(* kind of the entity and its 1-based position, for an orbital the spin    *)
(* channel too; the identifiers of one output are pairwise distinct and    *)
(* differ from the calculation and the molecule subject.                   *)
(***************************************************************************)
SubEntityTypes ==
    << "cheminf:Atom", "ontocompchem:VibrationalFrequency",
       "ontocompchem:ElectronicTransition", "ontocompchem:SCFEnergy",
       "ontocompchem:HOMOLUMOGap", "ontocompchem:MolecularOrbital" >>

(* The token of each kind in the identifiers of the two text encoders. *)
KindToken(ty) ==
    CASE ty = "cheminf:Atom" -> "atom"
      [] ty = "ontocompchem:VibrationalFrequency" -> "freq"
      [] ty = "ontocompchem:ElectronicTransition" -> "trans"
      [] ty = "ontocompchem:SCFEnergy" -> "scf"
      [] ty = "ontocompchem:HOMOLUMOGap" -> "gap"
      [] ty = "ontocompchem:MolecularOrbital" -> "mo"

(* Every sub-entity subject of the output, kind after kind. *)
SubEntities(lines) ==
    Concat([t \in DOMAIN SubEntityTypes |-> SubjectsTyped(lines, SubEntityTypes[t])])

CalcSubject(lines) == SubjectsTyped(lines, "ontocompchem:QuantumCalculation")[1]

(* The spin channel and the 1-based index of the k-th orbital of the record. *)
RECURSIVE OrbitalPosition(_, _, _)
OrbitalPosition(moenergies, s, k) ==
    IF k <= Len(moenergies[s]) THEN [spin |-> s - 1, index |-> k]
    ELSE OrbitalPosition(moenergies, s + 1, k - Len(moenergies[s]))

C10_CclibIds(lines) ==
    \A t \in DOMAIN SubEntityTypes :
        LET subs == SubjectsTyped(lines, SubEntityTypes[t])
        IN  \A k \in DOMAIN subs :
                subs[k] = CalcSubject(lines) \o "/" \o KindToken(SubEntityTypes[t])
                              \o "_" \o ToString(k)

C10_TriplesIds(lines) ==
    \A t \in DOMAIN SubEntityTypes :
        LET ty == SubEntityTypes[t]
            subs == SubjectsTyped(lines, ty)
        IN  \A k \in DOMAIN subs :
                CASE ty = "cheminf:Atom" ->
                        subs[k] = "atom_mol_" \o CalcSubject(lines) \o "_" \o ToString(k)
                  [] ty = "ontocompchem:MolecularOrbital" ->
                        LET pos == OrbitalPosition(Result.moenergies.v, 1, k)
                        IN  subs[k] = "mo_" \o CalcSubject(lines)
                                        \o "_spin" \o ToString(pos.spin)
                                        \o "_" \o ToString(pos.index)
                  [] OTHER ->
                        subs[k] = KindToken(ty) \o "_" \o CalcSubject(lines)
                                      \o "_" \o ToString(k)

GivenFilename ==
    CASE prog = "cclib" -> Some(data.v["metadata"].filename)
      [] OTHER -> IF metadata.filename.st = "val" THEN metadata.filename ELSE Missing

C11_IdentifierDerivation ==
    \A i \in DOMAIN runs :
        (prog \in {"cclib", "triples"} /\ Succeeded(runs[i])) =>
            LET id == CalcSubject(runs[i].lines)
            IN  IF GivenFilename.st = "val"
                THEN /\ id = BaseName(GivenFilename.v)
                     /\ \A c \in Range(Sanitize(StripKnownPrefix(SplitextRoot(GivenFilename.v)))) :
                            c \in IdChars
                ELSE id = "calc_" \o Join(Without(Without(metadata.timestamp.v, "-"), ":"))

(***************************************************************************)
(* C12: whatever the record and the metadata, the output has the           *)
(* QuantumCalculation type triple, the creation-timestamp triple and the   *)
(* link to the Molecule entity, and it has the source-filename triple      *)
(* exactly when the metadata has a filename; metadata without a filename   *)
(* never makes the encoding fail.                                          *)
(***************************************************************************)
(* The statements of the calculation subject with one of the predicates ps. *)
CalcStatements(lines, ps) ==
    LET hit(l) == /\ IsStatement(l) /\ l.p \in ps
                  /\ l.s \in Range(SubjectsTyped(lines, "ontocompchem:QuantumCalculation"))
    IN  SelectSeq(lines, hit)

(* The record is one the encoder encodes when the metadata is complete. *)
RecordEncodes ==
    prog = "triples" => generate_rdf_triples(Result, FullMetadata, clock).status = "ok"

C12_UnconditionalTriples ==
    \A i \in DOMAIN runs :
        (/\ prog \in {"triples", "rdflib"} /\ RecordEncodes
         /\ metadata.timestamp.st = "val") =>
            /\ runs[i].status = "ok"
            /\ Len(SubjectsTyped(runs[i].lines, "ontocompchem:QuantumCalculation")) = 1
            /\ Len(CalcStatements(runs[i].lines, {"dcterms:created"})) = 1
            /\ Cardinality(LinkedMolecules(runs[i].lines)) = 1
            /\ (metadata.filename.st = "val")
                 <=> (CalcStatements(runs[i].lines, {"dcterms:source", "dcterms:title"}) # <<>>)

(***************************************************************************)
(* C13: an optional field that is absent or null in the input does not     *)
(* appear in the output: the normalizer leaves it out of the record and    *)
(* the encoder emits no triple for it, and no default value (zero, false)  *)
(* stands in for an absent scalar such as the convergence flag.            *)
(***************************************************************************)
(* The predicate under which each program writes a field of the result object. *)
FieldPredicates ==
    CASE prog = "cclib" ->
            { <<"natom", "ontocompchem:hasNAtoms">>, <<"charge", "ontocompchem:hasCharge">>,
              <<"mult", "ontocompchem:hasMultiplicity">>,
              <<"scfenergies", "ontocompchem:hasValueEV">>,
              <<"atomnos", "ontocompchem:hasMolecularFormula">> }
      [] prog = "triples" ->
            { <<"natom", "cheminf:hasAtomCount">>, <<"charge", "cheminf:hasCharge">>,
              <<"mult", "cheminf:hasMultiplicity">>,
              <<"scfenergies", "ontocompchem:hasSCFEnergy">>,
              <<"enthalpy", "ontocompchem:hasEnthalpy">>,
              <<"nbasis", "ontocompchem:hasBasisFunctions">>,
              <<"optdone", "ontocompchem:isOptimizationConverged">>,
              <<"moments", "ontocompchem:hasDipoleMoment">> }
      [] prog = "rdflib" ->
            { <<"charge", "cheminf:hasCharge">>, <<"mult", "cheminf:hasMultiplicity">>,
              <<"scfenergies", "ontocompchem:hasSCFEnergy">>,
              <<"moments", "ontocompchem:hasDipoleMoment">> }

(* The result object says whether the calculation finished. *)
FinishedKnown ==
    /\ NotNone(Result, "metadata")
    /\ Result.metadata.v.finished.st = "val"

C13_AbsentFieldsStayAbsent ==
    /\ (prog = "cclib" /\ data.st = "val" /\ Obtained /\ ~Has(data.v, "error")) =>
            \A a \in CclibAttrs : ~NotNone(Result, a) => ~Has(data.v, a)
    /\ (prog = "rdflib" /\ data.st = "val" /\ data.v.status = "ok") =>
            (~FinishedKnown => ~Has(data.v.result, "converged"))
    /\ \A i \in DOMAIN runs : Succeeded(runs[i]) =>
            /\ \A fp \in FieldPredicates :
                    ~NotNone(Result, fp[1]) => ValuesOf(runs[i].lines, fp[2]) = <<>>
            /\ (prog = "rdflib" /\ ~FinishedKnown) =>
                    ValuesOf(runs[i].lines, "ontocompchem:hasConverged") = <<>>

(***************************************************************************)
(* C14: for a result object that was obtained, the normalizer returns a    *)
(* record, neither raising nor returning an error value, whatever optional *)
(* fields are absent, null or empty sequences; the record holds exactly    *)
(* the whitelisted fields that are present and not null.                   *)
(***************************************************************************)
(* Where the result object has HOMO indices, they point into the orbital energies. *)
HomoIndicesInRange ==
    (NotNone(Result, "moenergies") /\ NotNone(Result, "homos")) =>
        \A s \in DOMAIN Result.homos.v :
            s \in DOMAIN Result.moenergies.v =>
                /\ Result.homos.v[s] >= 0
                /\ Result.homos.v[s] < Len(Result.moenergies.v[s])

C14_NormalizerReturnsRecord ==
    (Obtained /\ HomoIndicesInRange /\ data.st = "val") =>
        /\ prog = "cclib" =>
                /\ ~Has(data.v, "error")
                /\ \A a \in CclibAttrs : Has(data.v, a) <=> NotNone(Result, a)
        /\ prog = "rdflib" => data.v.status = "ok"

(***************************************************************************)
(* C15: when the parser gives no result object (it returns nothing or      *)
(* fails), the normalizer rejects the calculation with an explicit error   *)
(* that names the source file, and returns no partial record: the result   *)
(* holds no calculation field.                                             *)
(***************************************************************************)
C15_ParseFailureIsRejected ==
    (~Obtained /\ data.st = "val") =>
        /\ prog = "cclib" =>
                /\ DOMAIN data.v = {"error"}
                /\ data.v["error"] \in {"Failed to parse file: " \o Join(filepath),
                                        "Error parsing " \o Join(filepath)}
                /\ \A i \in DOMAIN runs : \A l \in Range(runs[i].lines) : ~IsStatement(l)
        /\ prog = "rdflib" =>
                /\ data.v.status = "raised"
                /\ data.v.what = "RuntimeError: Error parsing Gaussian file " \o Join(filepath)
                /\ data.v.result = <<>>
                /\ runs = <<>>

(* The parser returned nothing, the normalizer answered and the answer was encoded. *)
C15_Witness ==
    /\ parsed = None /\ prog = "cclib" /\ data.st = "val"
    /\ Has(data.v, "error")
    /\ runs # <<>>

(***************************************************************************)
(* C16: the command-line entry point ends with exit code 0 exactly when    *)
(* the encoding succeeded; when the metadata JSON cannot be decoded or the *)
(* parser gave no result it ends with exit code 1, writes the error to the *)
(* error stream and writes no Turtle or JSON result to standard output.    *)
(***************************************************************************)
C16_ExitCodes ==
    cli.st = "val" =>
        /\ cli.v.exit \in {0, 1}
        /\ cli.v.exit = 0 => (cli.v.stdout # <<>> /\ cli.v.stderr = <<>>)
        /\ cli.v.exit = 1 => (cli.v.stdout = <<>> /\ cli.v.stderr # <<>>)
        /\ (~cli.v.decodable \/ ~Obtained) => cli.v.exit = 1

(***************************************************************************)
(* C17: of a sequence of polarizability tensors exactly the 3x3 ones       *)
(* contribute one average-polarizability value each, equal to trace/3; a   *)
(* tensor of another shape contributes nothing, the encoding still         *)
(* succeeds and every other statement is there as without the tensors.     *)
(***************************************************************************)
AveragePredicate == "ontocompchem:hasAveragePolarizability"

HasTensors == Obtained /\ Result.polarizabilities.st = "val"

ThreeByThree(t) == Len(t) = 3 /\ Len(t[1]) = 3 /\ Len(t[2]) = 3 /\ Len(t[3]) = 3

ExpectedAverages ==
    LET square == SelectSeq(Result.polarizabilities.v, ThreeByThree)
    IN  [i \in DOMAIN square |->
            Fmt(DivInt(square[i][1][1] + square[i][2][2] + square[i][3][3], 3), 6)]

OtherStatements(lines) ==
    LET hit(l) == IsStatement(l) /\ l.p # AveragePredicate
    IN  SelectSeq(lines, hit)

WithoutTensors == [Result EXCEPT !["polarizabilities"] = None]

C17_AveragePolarizability ==
    (prog = "triples" /\ HasTensors /\ CompleteMetadata) =>
        \A i \in DOMAIN runs :
            /\ runs[i].status = "ok"
            /\ ValuesOf(runs[i].lines, AveragePredicate) = ExpectedAverages
            /\ OtherStatements(runs[i].lines)
                 = OtherStatements(generate_rdf_triples(WithoutTensors, metadata, clock).lines)

C17_Witness ==
    /\ prog = "triples" /\ HasTensors /\ CompleteMetadata
    /\ runs # <<>>
    /\ Len(ExpectedAverages) = 2
    /\ Len(Result.polarizabilities.v) = 3
    /\ OtherStatements(runs[1].lines) # <<>>

(***************************************************************************)
(* C18: the dipole magnitude comes from the first moment vector only, as   *)
(* the Euclidean norm of its components at positions 1 to 3 (position 0 is *)
(* the charge); at most one dipole magnitude is emitted per calculation.   *)
(***************************************************************************)
HasMoments == Obtained /\ Result.moments.st = "val" /\ Result.moments.v # <<>>

(* The dipole magnitudes an output states, in order. *)
DipoleValues(lines) ==
    IF prog = "rdflib"
    THEN LET nodes == ValuesOf(lines, "ontocompchem:hasDipoleMoment")
             hit(l) == IsStatement(l) /\ l.p = "ontocompchem:hasValue"
                       /\ \E n \in DOMAIN nodes : nodes[n] = l.s
             sel == SelectSeq(lines, hit)
         IN  [i \in DOMAIN sel |-> sel[i].o]
    ELSE ValuesOf(lines, "ontocompchem:hasDipoleMoment")

FirstVectorNorm ==
    LET first == Result.moments.v[1]
    IN  ISqrt(first[2] * first[2] + first[3] * first[3] + first[4] * first[4])

ExpectedDipole ==
    IF prog = "rdflib" THEN Repr(FirstVectorNorm) ELSE Fmt(FirstVectorNorm, 6)

C18_DipoleFromFirstMoment ==
    (prog \in {"triples", "rdflib"} /\ HasMoments /\ CompleteMetadata) =>
        \A i \in DOMAIN runs :
            Succeeded(runs[i]) =>
                /\ Len(DipoleValues(runs[i].lines)) <= 1
                /\ Len(Result.moments.v[1]) >= 4
                     => DipoleValues(runs[i].lines) = <<ExpectedDipole>>

(***************************************************************************)
(* C19: the prefix block of the Turtle text is fixed: the same for every   *)
(* record and every metadata value; it declares cheminf, dcterms, ex,      *)
(* ontocompchem, prov, rdfs, xsd and a units namespace, each bound to one  *)
(* constant URI.  The block of the two scripts that write the text         *)
(* themselves is compared with the block they write for the empty record.  *)
(***************************************************************************)
PrefixBlock(lines) ==
    LET hit(l) == l.k = "prefix"
    IN  SelectSeq(lines, hit)

RequiredPrefixes == {"cheminf", "dcterms", "ex", "ontocompchem", "prov", "rdfs", "xsd"}

UnitsPrefixes == {"unit", "units"}

ReferenceBlock ==
    IF prog = "cclib"
    THEN PrefixBlock(generate_rdf_from_cclib(
                        extract_cclib_data(Some(EmptyResult), DefaultPath, 0)).lines)
    ELSE PrefixBlock(generate_rdf_triples(EmptyResult, FullMetadata, 0).lines)

C19_FixedPrefixBlock ==
    prog \in {"cclib", "triples"} =>
        \A i \in DOMAIN runs :
            Succeeded(runs[i]) =>
                LET block == PrefixBlock(runs[i].lines)
                    names == {block[j].s : j \in DOMAIN block}
                IN  /\ RequiredPrefixes \subseteq names
                    /\ names \cap UnitsPrefixes # {}
                    /\ NoDuplicates([j \in DOMAIN block |-> block[j].s])
                    /\ block = ReferenceBlock

(***************************************************************************)
(* C20: every value of the record the normalizer returns is a number, a    *)
(* string, an ordered sequence of such values or a mapping from string     *)
(* keys to such values, to any depth; no numeric array, time delta or      *)
(* datetime object remains anywhere in it.                                 *)
(***************************************************************************)
Primitives == {"int", "float", "str", "bool", "np.integer", "np.floating", "np.str_"}

RECURSIVE Representable(_)
Representable(value) ==
    \/ value.t \in Primitives
    \/ /\ value.t \in {"list", "tuple", "dict"}
       /\ \A i \in DOMAIN value.items : Representable(value.items[i])

C20_RecordIsRepresentable ==
    typed.record.st = "val" =>
        \A key \in DOMAIN typed.record.v : Representable(typed.record.v[key])

(***************************************************************************)
(* C21: no HOMO, LUMO or gap value is emitted for a spin channel whose     *)
(* HOMO index is negative or not less than the number of orbital energies  *)
(* of the channel; a negative index never selects an orbital counted from  *)
(* the end.  The values of an output are at most as many as the channels   *)
(* whose HOMO index is in range.                                           *)
(***************************************************************************)
HasOrbitals == Obtained /\ NotNone(Result, "moenergies") /\ NotNone(Result, "homos")

InRangeChannels ==
    {s \in DOMAIN Result.homos.v \cap DOMAIN Result.moenergies.v :
        Result.homos.v[s] >= 0 /\ Result.homos.v[s] < Len(Result.moenergies.v[s])}

FrontierValues(lines) ==
    CASE prog = "cclib" ->
            {ValuesOf(lines, "ontocompchem:hasHOMOEnergy"),
             ValuesOf(lines, "ontocompchem:hasLUMOEnergy"),
             ValuesOf(lines, "ontocompchem:hasGapValue")}
      [] prog = "triples" ->
            {ValuesOf(lines, "ontocompchem:hasHOMOEnergy"),
             ValuesOf(lines, "ontocompchem:hasLUMOEnergy"),
             ValuesOf(lines, "ontocompchem:hasHOMOLUMOGap")}
      [] prog = "rdflib" ->
            {ValuesAt(lines, BNode("gap_node"), "ontocompchem:hasValue")}

C21_NoValueForOutOfRangeHomo ==
    HasOrbitals =>
        \A i \in DOMAIN runs : Succeeded(runs[i]) =>
            \A values \in FrontierValues(runs[i].lines) :
                Len(values) <= Cardinality(IF prog = "rdflib" THEN InRangeChannels \cap {1}
                                           ELSE InRangeChannels)

(***************************************************************************)
(* C22: when the atomic numbers and the coordinates of the final geometry  *)
(* are both present and differ in length, the encoder reports the mismatch *)
(* as a defect: no encoding of such a record ends as a success with atom   *)
(* entities for the shorter of the two lengths.                            *)
(***************************************************************************)
LengthMismatch ==
    /\ HasGeometry /\ NotNone(Result, "atomnos")
    /\ Result.atomnos.v # <<>> /\ LastFrame # <<>>
    /\ Len(Result.atomnos.v) # Len(LastFrame)

C22_MismatchIsReported ==
    LengthMismatch => \A k \in DOMAIN runs : ~Succeeded(runs[k])

(***************************************************************************)
(* C23: every conversion from eV to Hartree, in the normalizer and in      *)
(* every encoder that converts, divides by one and the same factor: the    *)
(* Hartree values that the two converting scripts state for the SCF        *)
(* energies of a record, and the gap entries of the normalizer, all come   *)
(* from one factor.                                                        *)
(***************************************************************************)
CandidateFactors == {HartreeFactorShort, HartreeFactorLong}

HasScf == Obtained /\ NotNone(Result, "scfenergies") /\ Result.scfenergies.v # <<>>

(* The Hartree values in the text of generate_rdf_from_cclib. *)
CclibHartreeTexts(lines) ==
    LET hit(l) == /\ IsStatement(l) /\ l.p = "ontocompchem:hasValue"
                  /\ l.s \in Range(SubjectsTyped(lines, "ontocompchem:SCFEnergy"))
        sel == SelectSeq(lines, hit)
    IN  [k \in DOMAIN sel |-> sel[k].o]

ConvertedWith(factor, digits) ==
    [k \in DOMAIN Result.scfenergies.v |->
        Fmt(DivFactor(Result.scfenergies.v[k], factor), digits)]

C23_OneConversionFactor ==
    (HasScf /\ prog \in {"cclib", "triples"}) =>
        \A i \in DOMAIN runs : Succeeded(runs[i]) =>
            LET cclib_lines ==
                    IF prog = "cclib" THEN runs[i].lines
                    ELSE generate_rdf_from_cclib(
                            extract_cclib_data(parsed, filepath, clock)).lines
                triples_lines ==
                    IF prog = "triples" THEN runs[i].lines
                    ELSE generate_rdf_triples(Result, FullMetadata, clock).lines
            IN  \E factor \in CandidateFactors :
                    /\ CclibHartreeTexts(cclib_lines) = ConvertedWith(factor, 8)
                    /\ ValuesOf(triples_lines, "ontocompchem:hasSCFEnergy")
                         = ConvertedWith(factor, 10)
                    /\ (prog = "cclib" /\ Has(data.v, "homo_lumo_gaps")) =>
                          \A k \in DOMAIN data.v["homo_lumo_gaps"] :
                              data.v["homo_lumo_gaps"][k].gap_hartree
                                = DivFactor(data.v["homo_lumo_gaps"][k].gap_ev, factor)

(***************************************************************************)
(* C24: within one output the statements are grouped by entity kind and,   *)
(* within a kind, in ascending index order: the statements whose subject   *)
(* is an entity of one kind are contiguous, and entity i of the kind comes *)
(* before entity i+1.                                                      *)
(***************************************************************************)
(* The positions of the statements about the entities subs. *)
StatementsAbout(lines, subs) ==
    {p \in DOMAIN lines : IsStatement(lines[p]) /\ lines[p].s \in Range(subs)}

IndexOf(subs, sub) == CHOOSE k \in DOMAIN subs : subs[k] = sub

GroupedAndAscending(lines, subs) ==
    LET about == StatementsAbout(lines, subs)
    IN  \A p, r \in about : p < r =>
            /\ IndexOf(subs, lines[p].s) <= IndexOf(subs, lines[r].s)
            /\ \A q \in p..r : IsStatement(lines[q]) => q \in about

C24_GroupedByKindThenIndex ==
    prog \in {"cclib", "triples"} =>
        \A i \in DOMAIN runs : Succeeded(runs[i]) =>
            \A t \in DOMAIN SubEntityTypes :
                GroupedAndAscending(runs[i].lines,
                                    SubjectsTyped(runs[i].lines, SubEntityTypes[t]))

(***************************************************************************)
(* C25: the record is immutable once the normalizer has returned it: no    *)
(* later step, triple generation or JSON output of the command-line entry  *)
(* points, adds, removes or overwrites a field of it.                      *)
(***************************************************************************)
C25_RecordIsImmutable ==
    [][typed.record # Missing => typed'.record = typed.record]_vars

(***************************************************************************)
(* C26: two encodings that run side by side, their steps interleaved in    *)
(* any order, each produce exactly an output they produce when run alone:  *)
(* the output of an invocation is the encoder's output for its own         *)
(* arguments at one of the times it can run, whatever the other invocation *)
(* does.                                                                   *)
(***************************************************************************)
Times == 0..MaxClock

(* The outputs of one invocation with the arguments args, run alone. *)
AloneOutputs(args) ==
    CASE prog = "cclib" ->
            {generate_rdf_from_cclib(extract_cclib_data(args.parsed, args.filepath, t)) :
                t \in Times}
      [] prog = "triples" ->
            {generate_rdf_triples(args.parsed.v, args.metadata, t) : t \in Times}
      [] prog = "rdflib" ->
            {dict_to_graph(gaussian_to_dict(args.parsed, args.filepath).result,
                           FileUri(args.metadata, args.filepath), args.metadata, t) :
                t \in Times}

NameWithoutExtension(path) == SplitextRoot(Basename(path))

Encoded(i) == inv[i].out # Missing /\ Succeeded(inv[i].out.v)

C27_DistinctFilesDistinctIdentifiers ==
    prog = "cclib" =>
        \A i, j \in DOMAIN inv :
            (/\ Encoded(i) /\ Encoded(j)
             /\ NameWithoutExtension(inv[i].filepath) # NameWithoutExtension(inv[j].filepath))
            => CalcSubject(inv[i].out.v.lines) # CalcSubject(inv[j].out.v.lines)

(***************************************************************************)
(* C28: in the output of generate_rdf_from_cclib the HOMO-LUMO gap entity  *)
(* numbered k describes spin channel k-1, whichever spin channels have or  *)
(* lack a LUMO.  HOMO indices are inside the orbital energies here.        *)
(***************************************************************************)
C28_GapNumberIsSpinChannel ==
    (prog = "cclib" /\ HasOrbitals /\ HomoIndicesInRange) =>
        \A i \in DOMAIN runs : Succeeded(runs[i]) =>
            LET gaps == SubjectsTyped(runs[i].lines, "ontocompchem:HOMOLUMOGap")
            IN  \A k \in DOMAIN gaps :
                    /\ ValidChannel(k)
                    /\ ValuesAt(runs[i].lines, gaps[k], "ontocompchem:hasHOMOEnergy")
                         = <<Fmt(HomoOf(k), 6)>>
                    /\ ValuesAt(runs[i].lines, gaps[k], "ontocompchem:hasLUMOEnergy")
                         = <<Fmt(LumoOf(k), 6)>>

(* C29: in generate_rdf_triples every subject of an atomic partial-charge
   statement is an atom entity of the same output: it is typed cheminf:Atom
   and has a cheminf:isPartOf statement, whatever geometry and charge sets
   the record holds. *)
ChargePredicates ==
    IF Obtained /\ NotNone(Result, "atomcharges")
    THEN {"ontocompchem:has" \o Result.atomcharges.v[c].charge_type \o "Charge" :
            c \in DOMAIN Result.atomcharges.v}
    ELSE {}

ChargedSubjects(lines) ==
    {lines[p].s : p \in {q \in DOMAIN lines :
        IsStatement(lines[q]) /\ lines[q].p \in ChargePredicates}}

C29_ChargedSubjectsAreAtoms ==
    prog = "triples" =>
        \A i \in DOMAIN runs : runs[i].status = "ok" =>
            \A sub \in ChargedSubjects(runs[i].lines) :
                /\ sub \in Range(SubjectsTyped(runs[i].lines, "cheminf:Atom"))
                /\ ValuesAt(runs[i].lines, sub, "cheminf:isPartOf") # <<>>

(***************************************************************************)
(* parse_rdf_for_plotting (src/py/plot_gaussian_analysis.py): one pass     *)
(* over the lines of the text.  A line matches the pattern of a predicate  *)
(* when the predicate is followed by blanks and an optionally signed       *)
(* decimal number; the number is captured as written.  The objects         *)
(* the generators write under these predicates are fixed-point decimals,   *)
(* which the pattern captures whole.                                       *)
(***************************************************************************)
PlotMatches(lines, p) ==
    LET hit(l) == IsStatement(l) /\ l.p = p
        sel == SelectSeq(lines, hit)
    IN  [i \in DOMAIN sel |-> sel[i].o]

parse_rdf_for_plotting(lines) ==
    [energyData |-> PlotMatches(lines, "ontocompchem:hasSCFEnergy"),
     homoLumoData |-> PlotMatches(lines, "ontocompchem:hasHOMOLUMOGap"),
     frequencyData |-> PlotMatches(lines, "ontocompchem:hasFrequency")]

(***************************************************************************)
(* generate_rdf_from_cclib of the plugin-gaussian-kg package               *)
(* (src/eliza/packages/plugin-gaussian-kg/py/parse_gaussian_cclib.py):     *)
(* the SCF, gap and frequency sections, written as flat statements.        *)
(***************************************************************************)
KgScf(dict, base_name) ==
    IF Has(dict, "scfenergies")
    THEN Concat([i \in 1..Len(dict["scfenergies"]) |->
            LET energy == dict["scfenergies"][i]
                energy_hartree == DivFactor(energy, HartreeFactorShort)
            IN  << Head_(base_name, "ontocompchem:hasSCFEnergy", Fmt(energy_hartree, 8), "."),
                   Head_(base_name, "ontocompchem:hasSCFEnergyEV", Fmt(energy, 6), ".") >>])
    ELSE <<>>

KgGaps(dict, base_name) ==
    IF Has(dict, "homo_lumo_gaps")
    THEN Concat([i \in 1..Len(dict["homo_lumo_gaps"]) |->
            LET gap_data == dict["homo_lumo_gaps"][i]
            IN  << Head_(base_name, "ontocompchem:hasHOMOEnergy", Fmt(gap_data.homo_energy_ev, 6), "."),
                   Head_(base_name, "ontocompchem:hasLUMOEnergy", Fmt(gap_data.lumo_energy_ev, 6), "."),
                   Head_(base_name, "ontocompchem:hasHOMOLUMOGap", Fmt(gap_data.gap_ev, 6), ".") >>])
    ELSE <<>>

KgVibrations(dict, base_name) ==
    IF Has(dict, "vibfreqs")
    THEN Concat([i \in 1..Len(dict["vibfreqs"]) |->
            LET freq_id == base_name \o "_freq_" \o ToString(i)
            IN  << Head_(freq_id, "a", "ontocompchem:VibrationalFrequency", ";"),
                   Cont(freq_id, "ontocompchem:hasFrequency", Fmt(dict["vibfreqs"][i], 2), ";"),
                   Cont(freq_id, "ontocompchem:belongsTo", "ex:" \o base_name, ".") >>])
    ELSE <<>>

KgSections(dict, base_name) ==
    KgScf(dict, base_name) \o KgGaps(dict, base_name) \o KgVibrations(dict, base_name)

(* What the record holds, as the generators format it. *)
RecordEnergies(dict) ==
    IF Has(dict, "scfenergies")
    THEN [i \in DOMAIN dict["scfenergies"] |->
            Fmt(DivFactor(dict["scfenergies"][i], HartreeFactorShort), 8)]
    ELSE <<>>

RecordGaps(dict) ==
    IF Has(dict, "homo_lumo_gaps")
    THEN [i \in DOMAIN dict["homo_lumo_gaps"] |-> Fmt(dict["homo_lumo_gaps"][i].gap_ev, 6)]
    ELSE <<>>

RecordFrequencies(dict) ==
    IF Has(dict, "vibfreqs")
    THEN [i \in DOMAIN dict["vibfreqs"] |-> Fmt(dict["vibfreqs"][i], 2)]
    ELSE <<>>

Recovers(lines, dict) ==
    LET got == parse_rdf_for_plotting(lines)
    IN  /\ got.energyData = RecordEnergies(dict)
        /\ got.homoLumoData = RecordGaps(dict)
        /\ got.frequencyData = RecordFrequencies(dict)

(* The flat statements of the plugin-gaussian-kg generator are read back. *)
PlotParserReadsKgSections ==
    (prog = "cclib" /\ data.st = "val" /\ ~Has(data.v, "error")) =>
        Recovers(KgSections(data.v, "run"), data.v)

(* C30: parse_rdf_for_plotting applied to the Turtle text that
   generate_rdf_from_cclib produces for a record recovers exactly as many
   SCF energies, HOMO-LUMO gaps and vibrational frequencies as the record
   holds, in the same order. *)
C30_PlotParserRoundTrip ==
    (prog = "cclib" /\ data.st = "val" /\ ~Has(data.v, "error")) =>
        \A i \in DOMAIN runs : runs[i].status = "ok" =>
            Recovers(runs[i].lines, data.v)

====
